---- MODULE Spec2Model ----
(***************************************************************************)
(* A model of jbackup: the ordered multi-worker pipeline                   *)
(* (src/util/multithreaded_pipeline.rs) and the snapshot engine            *)
(* (src/subcommand/snapshot.rs, src/subcommand/init.rs,                    *)
(* src/file_structure.rs).                                                 *)
(***************************************************************************)
EXTENDS Integers, Sequences, FiniteSets, TLC

(* ------------------------------ bounds -------------------------------- *)

\* The largest number of workers spawn_workers is called with.
MaxWorkers == 2
\* The largest number of write() calls the producer makes.
MaxInputs == 6
\* The number of snapshot ids a snapshot command can compute.
MaxIds == 3
\* The largest number of snapshot commands started.
MaxOps == 3
\* The number of paths an archive given to the delta engine may hold.
MaxPaths == 3
\* The number of distinct payloads an archive entry may have.
MaxPayloads == 2
\* The largest number of buffer pairs xdelta3::encode yields no patch for.
MaxNoPatch == 1
\* The number of file names a working tree is drawn from.
MaxNames == 2
\* The number of chunks of a region file the model keeps.
MaxChunks == 2
\* The largest number of transformers the config file lists.
MaxTransformers == 2
\* The add_chunk calls made on one writer.
MaxAdds == 3
\* The largest number of records of a delta list that is applied, and the
\* number of paths the records and the source archive are drawn from.
MaxRecords == 2
\* The largest value a byte of a delta list file is changed to.
MaxFlipByte == 3
\* The number of keys a key/value file is drawn from.
MaxKeys == 2
\* The number of values a key/value file is drawn from.
MaxValues == 2
\* The largest number of values a Contents that is written is built from.
MaxEntries == 3
\* The largest number of lines of a key/value file that is read.
MaxLines == 3
\* The largest length of a string that is escaped.
MaxStrLen == 3

(* ====================================================================== *)
(*                     MultithreadPipeline                                *)
(* ====================================================================== *)

VARIABLES
    pc,                  \* where the producer (the thread owning the pipeline) is
    next_input_index,    \* MultithreadPipeline.next_input_index
    number_outputs_read, \* MultithreadPipeline.number_outputs_read
    offset,              \* OutputBuffer.offset
    buffer,              \* OutputBuffer.buffer: VecDeque<Option<O>>
    output_channel,      \* the mpsc channel of (output, input index, thread index)
    is_working,          \* ThreadState.is_working, per thread
    input_channel,       \* the mpsc channel of each thread: (DataOrCommand, index)
    wstate,              \* where each worker thread is
    sink_log,            \* the outputs the output_handler was called with, in order
    cur_input,           \* write(): the pair (input, index) being written
    number_inputs,       \* finalize(): the local number_inputs
    write_polls          \* write(): poll_blocking calls made by the current call

pipelineVars ==
    <<pc, next_input_index, number_outputs_read, offset, buffer, output_channel,
      is_working, input_channel, wstate, sink_log, cur_input, number_inputs,
      write_polls>>

\* The repository on disk and the running snapshot command.
VARIABLES
    repo_exists,     \* ./.jbackup exists, with branches, head and config in it
    head,            \* the head file: snapshotid (NoId: the key is absent), branch
    branches,        \* the branches file: branch name -> snapshot id
    config,          \* the config file: the transformer names
    metas,           \* snapshots/{id}.meta, per id: its contents or NoMetaFile
    payloads,        \* snapshots/{id}-full.{ext}, per name: its contents or NoFile
    diffs,           \* snapshots/{a}-diff-{b}: the set of <<a, b>> that exist
    tmp,             \* ./.jbackup/tmp_snapshot.tar.gz: its contents or NoFile
    spc,             \* where the running snapshot command is ("rest": none runs)
    staged,          \* snapshot::main, staged_snapshot
    curr,            \* snapshot::main, curr_snapshot_meta
    head_file,       \* snapshot::main, head_file
    branch_file,     \* snapshot::main, branch_file
    files_to_delete, \* snapshot::main, files_to_delete.snapshots_files
    ops,             \* the number of snapshot commands started so far
    last_result,     \* how the last command ended
    interrupted,     \* some snapshot command was interrupted before its end
    restore_out,     \* what the last command, if __debug_restore, did
    taken,           \* per snapshot, the archive written when it was taken
    before           \* the repository as the running snapshot command found it

snapshotVars ==
    <<repo_exists, head, branches, config, metas, payloads, diffs, tmp, spc,
      staged, curr, head_file, branch_file, files_to_delete, ops, last_result,
      interrupted, restore_out, taken, before>>

\* The files __debug_restore works with besides those of the snapshot command.
VARIABLES
    delta_lists,     \* the snapshots/{a}-diff-{b} that hold a gzip'd delta list
    bad_lists,       \* those of them restore_from_delta_list returns Err for
    tmp_restored,    \* ./.jbackup/tmp-restored-{id}: the ids whose file exists
    restore_log,     \* the files the last __debug_restore created and removed
    restore_walk     \* __debug_restore::main, path and path_found after the loop

chainVars ==
    <<delta_lists, bad_lists, tmp_restored, restore_log, restore_walk>>

\* The delta engine: one generate_delta_list call and one
\* restore_from_delta_list call on its output.
VARIABLES
    start_tar,       \* the entries of the archive both calls read as start_tar
    start_fails,     \* the entry of start_tar whose read fails (0: none does)
    dl_records,      \* the records the writer was given, in order
    dl_flip,         \* what was changed in the file after it was written
    end_tar,         \* generate_delta_list: the entries of end_tar
    no_patch,        \* the (target, source) pairs xdelta3::encode gives None for
    delta_list,      \* the bytes of the delta list file (after the gzip layer)
    restored,        \* restore_from_delta_list: its result and the entries written
    inverted,        \* __debug_delta::inverse: its result and the entries written
    dl_pc            \* which of the calls have been made

deltaVars ==
    <<start_tar, start_fails, end_tar, no_patch, dl_records, delta_list,
      dl_flip, restored, inverted, dl_pc>>

\* The file-tree walker: one create_tmp_tar call.
VARIABLES
    work_tree,       \* the regular files of the working tree
    emitted,         \* the paths file_handler was called with, in order
    archived,        \* the paths of the entries appended to the archive
    walk_pc          \* whether the call has been made

walkVars == <<work_tree, emitted, archived, walk_pc>>

\* The transformers: one file ingested into an archive and extracted again.
VARIABLES
    transformers,    \* ConfigFile.transformers
    tf_path,         \* the path of the file
    tf_input,        \* the contents of the file in the working tree
    ingested,        \* the archive entry: the ingestion chain's result and calls
    extracted,       \* the restored file: the extraction chain's result and calls
    tf_pc            \* how far the file has come

\* The region files: one file given to __debug_transform, or one
\* RegionFileFormatWriter and the chunks added to it.
VARIABLES
    rg_input,        \* the contents of the region file read
    rg_output,       \* what the transform returned
    rg_writer,       \* the RegionFileFormatWriter
    rg_calls,        \* the add_chunk calls that returned: chunk_i and payload
    rg_pc            \* which calls have been made

regionVars == <<rg_input, rg_output, rg_writer, rg_calls, rg_pc>>

transformVars ==
    <<transformers, tf_path, tf_input, ingested, extracted, tf_pc, regionVars>>

\* The key/value files: a Contents written and read back, a file read, a
\* string escaped and unescaped.
VARIABLES
    tk_contents,     \* the Contents write_string is called on
    tk_config,       \* Config.multivalue_keys of the read
    tk_data,         \* the string written, or the contents of the file to read
    tk_read,         \* the result of read_string
    tk_str,          \* the string escape_string is called on
    tk_escaped,      \* the result of escape_string
    tk_unescaped,    \* the result of unescape_string
    tk_pc            \* which calls have been made

tskvVars ==
    <<tk_contents, tk_config, tk_data, tk_read, tk_str, tk_escaped,
      tk_unescaped, tk_pc>>

\* The components that are pure functions of their inputs.
pureVars == <<deltaVars, walkVars, transformVars, tskvVars>>

\* What the pipeline's steps leave alone.
PipelineFrame == UNCHANGED <<snapshotVars, chainVars, pureVars>>

\* What the repository commands leave alone.
RepoFrame ==
    UNCHANGED <<pipelineVars, delta_lists, bad_lists, tmp_restored, pureVars>>

\* What __debug_restore leaves alone.
RestoreFrame == UNCHANGED <<pipelineVars, pureVars>>

\* No snapshot command is running.
NoRepository == [metas |-> <<>>]

\* What a step inside a snapshot command leaves alone, too.
StepFrame ==
    RepoFrame /\ UNCHANGED <<restore_out, restore_log, restore_walk, taken>>

\* The repository as the command found it is kept until the command ends.
KeepBefore == before' = IF spc' = "rest" THEN NoRepository ELSE before

\* What the delta engine leaves alone.
DeltaFrame ==
    UNCHANGED <<pipelineVars, snapshotVars, chainVars, walkVars, transformVars, tskvVars>>

\* What the walker leaves alone.
WalkFrame ==
    UNCHANGED <<pipelineVars, snapshotVars, chainVars, deltaVars, transformVars, tskvVars>>

\* What the transformers leave alone.
TransformFrame ==
    UNCHANGED <<pipelineVars, snapshotVars, chainVars, deltaVars, walkVars, tskvVars,
                regionVars>>

\* What the region files leave alone.
RegionFrame ==
    UNCHANGED <<pipelineVars, snapshotVars, chainVars, deltaVars, walkVars, tskvVars,
                transformers, tf_path, tf_input, ingested, extracted, tf_pc>>

\* What the key/value codec leaves alone.
TskvFrame ==
    UNCHANGED <<pipelineVars, snapshotVars, chainVars, deltaVars, walkVars, transformVars>>

\* Option::None in the output buffer.
None == [none |-> TRUE]

Some(o) == [some |-> o]

\* The k-th input the producer writes (k counted from 0), as in main().
InputOf(k) == k

\* process_fn of main(): |_, x| x + 1.
ProcessFn(x) == x + 1

Data(input, index) == [kind |-> "Data", input |-> input, index |-> index]

Terminate == [kind |-> "Terminate", input |-> 0, index |-> 0]

Threads == DOMAIN is_working

NoInput == [input |-> 0, index |-> 0]

PipelineInit ==
    /\ pc = "new"
    /\ next_input_index = 0
    /\ number_outputs_read = 0
    /\ offset = 0
    /\ buffer = <<>>
    /\ output_channel = <<>>
    /\ is_working = <<>>
    /\ input_channel = <<>>
    /\ wstate = <<>>
    /\ sink_log = <<>>
    /\ cur_input = NoInput
    /\ number_inputs = 0
    /\ write_polls = 0

\* The buffer with None pushed to its back until it is longer than output_index.
RECURSIVE PadBuffer(_, _)
PadBuffer(buf, output_index) ==
    IF Len(buf) <= output_index THEN PadBuffer(Append(buf, None), output_index)
    ELSE buf

\* process_output_tuple pushing the output to the back of the buffer, whatever
\* its index.
BufferAfterTuple_PushBack(buf, off, tuple) == Append(buf, Some(tuple.output))

\* process_output_tuple, its effect on the buffer.
BufferAfterTuple(buf, off, tuple) ==
    LET output_index == tuple.input_index - off
        padded == PadBuffer(buf, output_index)
    IN  [padded EXCEPT ![output_index + 1] = Some(tuple.output)]

\* process_output_tuple leaving the thread marked as working.
WorkingAfterTuple_KeepsWorking(working, tuple) == working

\* process_output_tuple, its effect on the threads.
WorkingAfterTuple(working, tuple) ==
    [working EXCEPT ![tuple.thread_index] = FALSE]

\* try_read_from_buffer succeeds: the buffer is not empty and its 0th item is Some.
CanReadFromBuffer(buf) ==
    /\ Len(buf) > 0
    /\ buf[1] # None

\* flush_buffer: the number of items try_read_from_buffer returns before None.
RECURSIVE FlushCount(_)
FlushCount(buf) ==
    IF CanReadFromBuffer(buf) THEN 1 + FlushCount(Tail(buf)) ELSE 0

\* read_to_buffer / read_to_buffer_blocking: the tuples folded into the buffer.
RECURSIVE ReadTuples(_, _, _)
ReadTuples(buf, off, tuples) ==
    IF tuples = <<>> THEN buf
    ELSE ReadTuples(BufferAfterTuple(buf, off, Head(tuples)), off, Tail(tuples))

RECURSIVE FreeThreads(_, _)
FreeThreads(working, tuples) ==
    IF tuples = <<>> THEN working
    ELSE FreeThreads(WorkingAfterTuple(working, Head(tuples)), Tail(tuples))

\* The producer receives `tuples` from the output channel (read_to_buffer*),
\* then runs flush_buffer.
ReceiveAndFlush(tuples) ==
    LET read == ReadTuples(buffer, offset, tuples)
        n == FlushCount(read)
    IN  /\ is_working' = FreeThreads(is_working, tuples)
        /\ buffer' = SubSeq(read, n + 1, Len(read))
        /\ offset' = offset + n
        /\ number_outputs_read' = number_outputs_read + n
        /\ sink_log' = sink_log \o [k \in 1..n |-> read[k].some]

\* spawn_workers(num_workers, ..): the threads are pushed, not working.
SpawnWorkers(num_workers) ==
    /\ PipelineFrame
    /\ pc = "new"
    /\ is_working' = [t \in 1..num_workers |-> FALSE]
    /\ input_channel' = [t \in 1..num_workers |-> <<>>]
    /\ wstate' = [t \in 1..num_workers |-> [at |-> "recv", input |-> 0, index |-> 0]]
    /\ pc' = "idle"
    /\ UNCHANGED <<next_input_index, number_outputs_read, offset, buffer,
                   output_channel, sink_log, cur_input, number_inputs, write_polls>>

\* write(input), lines 62-63: the input gets the next index.
WriteCall ==
    /\ PipelineFrame
    /\ pc = "idle"
    /\ next_input_index < MaxInputs
    /\ cur_input' = [input |-> InputOf(next_input_index), index |-> next_input_index]
    /\ next_input_index' = next_input_index + 1
    /\ write_polls' = 0
    /\ pc' = "write"
    /\ UNCHANGED <<number_outputs_read, offset, buffer, output_channel, is_working,
                   input_channel, wstate, sink_log, number_inputs>>

\* The for loop of write() stopping at the 0th thread, working or not.
FirstIdle_IgnoresWorking(working) == 1

\* The thread the for loop of write() stops at: the first one not working.
FirstIdle(working) ==
    CHOOSE t \in DOMAIN working :
        /\ ~working[t]
        /\ \A u \in DOMAIN working : u < t => working[u]

SomeIdle(working) == \E t \in DOMAIN working : ~working[t]

\* write(input), lines 66-75: a thread is not working; the input is sent to it.
WriteDispatch ==
    /\ PipelineFrame
    /\ pc = "write"
    /\ SomeIdle(is_working)
    /\ LET t == FirstIdle(is_working)
       IN  /\ is_working' = [is_working EXCEPT ![t] = TRUE]
           /\ input_channel' =
                  [input_channel EXCEPT
                      ![t] = Append(@, Data(cur_input.input, cur_input.index))]
    /\ pc' = "idle"
    /\ UNCHANGED <<next_input_index, number_outputs_read, offset, buffer,
                   output_channel, wstate, sink_log, cur_input, number_inputs,
                   write_polls>>

\* write(input), line 77: every thread is working; poll_blocking returns once
\* a tuple is in the output channel, and the loop starts again.
WritePollBlocking ==
    /\ PipelineFrame
    /\ pc = "write"
    /\ ~SomeIdle(is_working)
    /\ output_channel # <<>>
    /\ ReceiveAndFlush(<<Head(output_channel)>>)
    /\ output_channel' = Tail(output_channel)
    /\ write_polls' = write_polls + 1
    /\ UNCHANGED <<pc, next_input_index, input_channel, wstate, cur_input,
                   number_inputs>>

\* poll(): read_to_buffer takes every tuple the channel holds, then flush_buffer.
Poll ==
    /\ PipelineFrame
    /\ pc = "idle"
    /\ ReceiveAndFlush(output_channel)
    /\ output_channel' = <<>>
    /\ UNCHANGED <<pc, next_input_index, input_channel, wstate, cur_input,
                   number_inputs, write_polls>>

\* poll_blocking() called by the owner of the pipeline.
PollBlockingCall ==
    /\ PipelineFrame
    /\ pc = "idle"
    /\ pc' = "poll_blocking"
    /\ UNCHANGED <<next_input_index, number_outputs_read, offset, buffer,
                   output_channel, is_working, input_channel, wstate, sink_log,
                   cur_input, number_inputs, write_polls>>

\* poll_blocking(): recv() returns one tuple, then flush_buffer.
PollBlockingReturn ==
    /\ PipelineFrame
    /\ pc = "poll_blocking"
    /\ output_channel # <<>>
    /\ ReceiveAndFlush(<<Head(output_channel)>>)
    /\ output_channel' = Tail(output_channel)
    /\ pc' = "idle"
    /\ UNCHANGED <<next_input_index, input_channel, wstate, cur_input,
                   number_inputs, write_polls>>

\* finalize(), lines 97-104: Terminate is sent to every thread.
FinalizeCall ==
    /\ PipelineFrame
    /\ pc = "idle"
    /\ number_inputs' = next_input_index
    /\ input_channel' = [t \in Threads |-> Append(input_channel[t], Terminate)]
    /\ pc' = "finalize"
    /\ UNCHANGED <<next_input_index, number_outputs_read, offset, buffer,
                   output_channel, is_working, wstate, sink_log, cur_input,
                   write_polls>>

\* The loop of finalize() ending one output early.
FinalizeMustPoll_OffByOne == number_outputs_read + 1 < number_inputs

\* finalize(), the condition of its while loop.
FinalizeMustPoll == number_outputs_read < number_inputs

\* finalize(), lines 106-108: one turn of the loop.
FinalizePoll ==
    /\ PipelineFrame
    /\ pc = "finalize"
    /\ FinalizeMustPoll
    /\ output_channel # <<>>
    /\ ReceiveAndFlush(<<Head(output_channel)>>)
    /\ output_channel' = Tail(output_channel)
    /\ UNCHANGED <<pc, next_input_index, input_channel, wstate, cur_input,
                   number_inputs, write_polls>>

\* finalize(), lines 110-114: every thread is joined and the context returned.
FinalizeJoin ==
    /\ PipelineFrame
    /\ pc = "finalize"
    /\ ~FinalizeMustPoll
    /\ \A t \in Threads : wstate[t].at = "exited"
    /\ pc' = "done"
    /\ UNCHANGED <<next_input_index, number_outputs_read, offset, buffer,
                   output_channel, is_working, input_channel, wstate, sink_log,
                   cur_input, number_inputs, write_polls>>

\* A worker that goes on receiving after Terminate.
WorkerAfter_IgnoresTerminate(msg) ==
    IF msg.kind = "Data"
    THEN [at |-> "process", input |-> msg.input, index |-> msg.index]
    ELSE [at |-> "recv", input |-> 0, index |-> 0]

\* What a worker does with the message it received.
WorkerAfter(msg) ==
    IF msg.kind = "Data"
    THEN [at |-> "process", input |-> msg.input, index |-> msg.index]
    ELSE [at |-> "exited", input |-> 0, index |-> 0]

\* The worker loop, line 132: input_rx.recv().
WorkerRecv(t) ==
    /\ PipelineFrame
    /\ wstate[t].at = "recv"
    /\ input_channel[t] # <<>>
    /\ wstate' = [wstate EXCEPT ![t] = WorkerAfter(Head(input_channel[t]))]
    /\ input_channel' = [input_channel EXCEPT ![t] = Tail(@)]
    /\ UNCHANGED <<pc, next_input_index, number_outputs_read, offset, buffer,
                   output_channel, is_working, sink_log, cur_input, number_inputs,
                   write_polls>>

\* The worker loop, lines 135-143: process_fn returns and the tuple is sent.
WorkerSend(t) ==
    /\ PipelineFrame
    /\ wstate[t].at = "process"
    /\ output_channel' =
           Append(output_channel,
                  [output |-> ProcessFn(wstate[t].input),
                   input_index |-> wstate[t].index,
                   thread_index |-> t])
    /\ wstate' = [wstate EXCEPT ![t] = [at |-> "recv", input |-> 0, index |-> 0]]
    /\ UNCHANGED <<pc, next_input_index, number_outputs_read, offset, buffer,
                   is_working, input_channel, sink_log, cur_input, number_inputs,
                   write_polls>>

Producer ==
    \/ WriteCall
    \/ WriteDispatch
    \/ WritePollBlocking
    \/ Poll
    \/ PollBlockingCall
    \/ PollBlockingReturn
    \/ FinalizeCall
    \/ FinalizePoll
    \/ FinalizeJoin

PipelineNext ==
    \/ \E n \in 1..MaxWorkers : SpawnWorkers(n)
    \/ Producer
    \/ \E t \in Threads : WorkerRecv(t)
    \/ \E t \in Threads : WorkerSend(t)

(* ====================================================================== *)
(*                 The repository: init and snapshot                      *)
(* ====================================================================== *)

\* A snapshot id stands for "{timestamp}-{md5}".
Ids == 1..MaxIds

\* Option::None of a snapshot id; the key snapshotid absent from the head file.
NoId == 0

\* A payload or temporary file that does not exist.
NoFile == 0

\* A meta file that does not exist.
NoMetaFile == [exists |-> FALSE]

\* The value of -m ("": not given) in the run that computes the id `id`: the
\* runs with an odd id are given a message, the others none.
MessageArg(id) == IF id % 2 = 1 THEN "first" ELSE ""

\* enum SnapshotFullType.
FullTypes == {"None", "Tar", "TarGz"}

\* impl ToString for SnapshotFullType.
FullTypeToString(full_type) ==
    CASE full_type = "None" -> ""
      [] full_type = "Tar" -> "tar"
      [] full_type = "TarGz" -> "tar.gz"

\* impl FromStr for SnapshotFullType, on the strings to_string produces.
FullTypeFromStr(s) ==
    CASE s = "" -> "None"
      [] s = "tar" -> "Tar"
      [] s = "tar.gz" -> "TarGz"

\* The value of the key "full" when SnapshotMetaFile::serialize leaves it out.
NoKey == "(absent)"

\* SnapshotMetaFile::serialize: the contents of the meta file.
Serialize(meta) ==
    [date |-> meta.date,
     message |-> meta.message,
     full |-> IF meta.full_type # "None" THEN FullTypeToString(meta.full_type)
              ELSE NoKey,
     child |-> meta.children,
     parent |-> meta.parents,
     dchild |-> meta.diff_children,
     dparent |-> meta.diff_parents]

\* SnapshotMetaFile::read: the meta a meta file is parsed to.
MetaRead(snapshot_id, contents) ==
    [id |-> snapshot_id,
     date |-> contents.date,
     message |-> contents.message,
     full_type |-> IF contents.full = NoKey THEN "None"
                   ELSE FullTypeFromStr(contents.full),
     children |-> contents.child,
     parents |-> contents.parent,
     diff_children |-> contents.dchild,
     diff_parents |-> contents.dparent]

\* SnapshotMetaFile::get_full_payload_filename: "{id}-full.{full_type}".
FullPayloadFilename(meta) == <<meta.id, FullTypeToString(meta.full_type)>>

\* The names a full payload file can have.
PayloadNames == Ids \X {"tar", "tar.gz"}

\* SnapshotMetaFile::get_diff_path_from_child_snapshot: "{id}-diff-{child}".
DiffPath(meta, snapshot_id) == <<meta.id, snapshot_id>>

\* snapshot::main with no staged snapshot.
NoMeta == [id |-> NoId]

NoHeadFile == [curr_snapshot_id |-> NoId, curr_branch |-> ""]

EmptyMap == [b \in {} |-> NoId]

\* HashMap::insert.
MapInsert(map, key, value) ==
    [k \in DOMAIN map \cup {key} |-> IF k = key THEN value ELSE map[k]]

\* What __debug_restore::main did: the snapshot asked for, how it ended
\* ("ok", "err", "panic"), what it printed and the archive it restored.
RestoreOut(target, result, printed, archive) ==
    [target |-> target, result |-> result, printed |-> printed,
     archive |-> archive]

\* __debug_restore::main, lines 39-40: path and path_found before the loop.
NoWalk == [path |-> <<>>, path_found |-> FALSE]

\* The last command was not __debug_restore.
NoRestoreOut == RestoreOut(NoId, "none", "", NoFile)

\* The last command was not __debug_restore: there is nothing it did.
ForgetRestore ==
    /\ restore_out' = NoRestoreOut
    /\ restore_log' = <<>>
    /\ restore_walk' = NoWalk

\* The files under .jbackup a snapshot command may write: the metas, the full
\* payloads and the delta files of snapshots/, the head and the branches.
Repository ==
    [metas |-> metas, payloads |-> payloads, diffs |-> diffs, head |-> head,
     branches |-> branches]

RepoInit ==
    /\ repo_exists = FALSE
    /\ head = NoHeadFile
    /\ branches = EmptyMap
    /\ config = <<>>
    /\ metas = [i \in Ids |-> NoMetaFile]
    /\ payloads = [n \in PayloadNames |-> NoFile]
    /\ diffs = {}
    /\ tmp = NoFile
    /\ spc = "rest"
    /\ staged = NoMeta
    /\ curr = NoMeta
    /\ head_file = NoHeadFile
    /\ branch_file = EmptyMap
    /\ files_to_delete = <<>>
    /\ ops = 0
    /\ last_result = "none"
    /\ interrupted = FALSE
    /\ restore_out = NoRestoreOut
    /\ taken = [i \in Ids |-> NoFile]
    /\ before = NoRepository
    /\ delta_lists = {}
    /\ bad_lists = {}
    /\ tmp_restored = {}
    /\ restore_log = <<>>
    /\ restore_walk = NoWalk

\* The locals of snapshot::main are dropped when the command ends.
DropLocals ==
    /\ staged' = NoMeta
    /\ curr' = NoMeta
    /\ head_file' = NoHeadFile
    /\ branch_file' = EmptyMap
    /\ files_to_delete' = <<>>

\* The command returns Err (or panics): nothing more is written.
ReturnErr ==
    /\ spc' = "rest"
    /\ last_result' = "error"
    /\ DropLocals

\* transformer::get_transformer: the names it knows.
KnownTransformers == {"minecraft_mca"}

\* The values of --transformer: not given (""), a known name, an unknown one.
TransformerArgs == {"", "minecraft_mca", "gzip"}

\* create_dir succeeding on a directory that exists.
CreateDirFails_Never == FALSE

\* init::main, line 29: fs::create_dir(JBACKUP_PATH) fails when the
\* directory exists.
CreateDirFails == repo_exists

\* init::main.
InitRepo(transformer) ==
    /\ RepoFrame
    /\ ForgetRestore
    /\ UNCHANGED <<taken, before>>
    /\ spc = "rest"
    /\ IF transformer # "" /\ transformer \notin KnownTransformers
       THEN \* lines 21-27: Invalid transformer
            /\ last_result' = "error"
            /\ UNCHANGED <<repo_exists, head, branches, config>>
       ELSE IF CreateDirFails
       THEN \* line 29: create_dir fails, the directory exists
            /\ last_result' = "error"
            /\ UNCHANGED <<repo_exists, head, branches, config>>
       ELSE /\ repo_exists' = TRUE
            /\ branches' = EmptyMap
            /\ head' = [curr_snapshot_id |-> NoId, curr_branch |-> "main"]
            /\ config' = IF transformer = "" THEN <<>> ELSE <<transformer>>
            /\ last_result' = "init"
    /\ UNCHANGED <<metas, payloads, diffs, tmp, spc, staged, curr, head_file,
                   branch_file, files_to_delete, ops, interrupted>>

\* create_full_snapshot up to commit_tmp_snapshot: the meta of the new snapshot.
NewMeta(id) ==
    [id |-> id,
     full_type |-> "Tar",
     date |-> id,
     message |-> "",
     children |-> <<>>,
     parents |-> <<>>,
     diff_children |-> <<>>,
     diff_parents |-> <<>>]

\* snapshot::main, lines 30-37 and create_full_snapshot, lines 146-164: the
\* repository is looked for, the temporary archive written and its id computed.
SnapshotBegin(id) ==
    /\ RepoFrame
    /\ ForgetRestore
    /\ UNCHANGED taken
    /\ spc = "rest"
    /\ ops < MaxOps
    /\ ops' = ops + 1
    /\ IF ~repo_exists
       THEN /\ ReturnErr
            /\ UNCHANGED <<tmp, before>>
       ELSE /\ tmp' = ops + 1
            /\ before' = Repository
            /\ staged' = NewMeta(id)
            /\ spc' = "commit_tmp"
            /\ UNCHANGED <<curr, head_file, branch_file, files_to_delete,
                           last_result>>
    /\ UNCHANGED <<repo_exists, head, branches, config, metas, payloads, diffs,
                   interrupted>>

\* commit_tmp_snapshot renaming without looking for the payload file.
PayloadExists_Never(name) == FALSE

\* commit_tmp_snapshot, line 316: the payload file is looked for.
PayloadExists(name) == payloads[name] # NoFile

\* commit_tmp_snapshot: the temporary archive is renamed into snapshots/.
CommitTmpSnapshot ==
    /\ StepFrame
    /\ spc = "commit_tmp"
    /\ IF PayloadExists(FullPayloadFilename(staged))
       THEN /\ ReturnErr
            /\ UNCHANGED <<payloads, tmp>>
       ELSE /\ payloads' = [payloads EXCEPT ![FullPayloadFilename(staged)] = tmp]
            /\ tmp' = NoFile
            /\ spc' = "check_collision"
            /\ UNCHANGED <<staged, curr, head_file, branch_file, files_to_delete,
                           last_result>>
    /\ UNCHANGED <<repo_exists, head, branches, config, metas, diffs, ops,
                   interrupted>>
    /\ KeepBefore

\* snapshot::main, lines 39-41: {id}.meta exists.
MetaExists(id) == metas[id] # NoMetaFile

\* The previous snapshot's meta losing its message when it is read.
WithChild_DropsMessage(meta, id) ==
    [meta EXCEPT !.children = Append(@, id), !.message = ""]

\* The previous snapshot's meta with the new one as its child, lines 58-69.
WithChild(meta, id) == [meta EXCEPT !.children = Append(@, id)]

\* snapshot::main, lines 39-69: the collision check, the message, the head and
\* the branches are read, and with a current snapshot its meta.
CheckCollision ==
    /\ StepFrame
    /\ spc = "check_collision"
    /\ IF MetaExists(staged.id)
       THEN /\ ReturnErr
       ELSE IF head.curr_snapshot_id = NoId
       THEN /\ staged' = [staged EXCEPT !.message = MessageArg(staged.id)]
            /\ head_file' = head
            /\ branch_file' = branches
            /\ spc' = "write_staged"
            /\ UNCHANGED <<curr, files_to_delete, last_result>>
       ELSE IF ~MetaExists(head.curr_snapshot_id)
       THEN \* line 58: SnapshotMetaFile::read fails
            /\ ReturnErr
       ELSE LET meta == MetaRead(head.curr_snapshot_id,
                                 metas[head.curr_snapshot_id])
            IN  IF meta.full_type # "Tar"
                THEN \* line 60: todo!() panics
                     /\ ReturnErr
                ELSE /\ curr' = WithChild(meta, staged.id)
                     /\ staged' = [staged EXCEPT
                                      !.message = MessageArg(staged.id),
                                      !.parents = Append(@, head.curr_snapshot_id)]
                     /\ head_file' = head
                     /\ branch_file' = branches
                     /\ spc' = "create_xdelta"
                     /\ UNCHANGED <<files_to_delete, last_result>>
    /\ UNCHANGED <<repo_exists, head, branches, config, metas, payloads, diffs,
                   tmp, ops, interrupted>>
    /\ KeepBefore

\* The previous snapshot not given the new one as diff child.
WithoutFull_NoDiffChild(meta, id) == [meta EXCEPT !.full_type = "None"]

\* The previous snapshot keeping its full_type.
WithoutFull_KeepsFull(meta, id) == [meta EXCEPT !.diff_children = Append(@, id)]

\* The previous snapshot's meta once the diff is made, lines 81-88.
WithoutFull(meta, id) ==
    [meta EXCEPT !.diff_children = Append(@, id), !.full_type = "None"]

\* snapshot::main, lines 72-91: create_xdelta runs xdelta and returns Ok whether
\* it wrote the delta file (written) or exited badly; the previous payload is
\* then scheduled for deletion.
CreateXDelta(written) ==
    /\ StepFrame
    /\ spc = "create_xdelta"
    /\ diffs' = IF written THEN diffs \cup {DiffPath(curr, staged.id)} ELSE diffs
    /\ files_to_delete' = Append(files_to_delete, FullPayloadFilename(curr))
    /\ curr' = WithoutFull(curr, staged.id)
    /\ staged' = [staged EXCEPT !.diff_parents = Append(@, curr.id)]
    /\ spc' = "write_staged"
    /\ UNCHANGED <<repo_exists, head, branches, config, metas, payloads, tmp,
                   head_file, branch_file, ops, last_result, interrupted>>
    /\ KeepBefore

\* snapshot::main, lines 55 and 93: staged_snapshot.write().
WriteStaged ==
    /\ RepoFrame
    /\ taken' = [taken EXCEPT ![staged.id] = payloads[FullPayloadFilename(staged)]]
    /\ UNCHANGED <<restore_out, restore_log, restore_walk>>
    /\ spc = "write_staged"
    /\ metas' = [metas EXCEPT ![staged.id] = Serialize(staged)]
    /\ spc' = IF curr = NoMeta THEN "write_head" ELSE "write_curr"
    /\ UNCHANGED <<repo_exists, head, branches, config, payloads, diffs, tmp,
                   staged, curr, head_file, branch_file, files_to_delete, ops,
                   last_result, interrupted>>
    /\ KeepBefore

\* The files deleted as soon as the metas are written.
AfterWriteCurr_DeleteFirst == "delete_files"

\* snapshot::main, lines 94-105: after curr_snapshot_meta.write() comes
\* head_file.write().
AfterWriteCurr == "write_head"

\* snapshot::main, line 94: curr_snapshot_meta.write().
WriteCurr ==
    /\ StepFrame
    /\ spc = "write_curr"
    /\ metas' = [metas EXCEPT ![curr.id] = Serialize(curr)]
    /\ spc' = AfterWriteCurr
    /\ UNCHANGED <<repo_exists, head, branches, config, payloads, diffs, tmp,
                   staged, curr, head_file, branch_file, files_to_delete, ops,
                   last_result, interrupted>>
    /\ KeepBefore

\* snapshot::main, lines 100 and 105: head_file.write().
WriteHead ==
    /\ StepFrame
    /\ spc = "write_head"
    /\ head' = [head_file EXCEPT !.curr_snapshot_id = staged.id]
    /\ spc' = "write_branches"
    /\ UNCHANGED <<repo_exists, branches, config, metas, payloads, diffs, tmp,
                   staged, curr, head_file, branch_file, files_to_delete, ops,
                   last_result, interrupted>>
    /\ KeepBefore

\* The branches written back as they were read.
BranchesToWrite_Unchanged == branch_file

\* snapshot::main, lines 101-103: the branches that are written.
BranchesToWrite == MapInsert(branch_file, head_file.curr_branch, staged.id)

\* snapshot::main, line 106: branch_file.write().
WriteBranches ==
    /\ StepFrame
    /\ spc = "write_branches"
    /\ branches' = BranchesToWrite
    /\ spc' = "delete_files"
    /\ UNCHANGED <<repo_exists, head, config, metas, payloads, diffs, tmp,
                   staged, curr, head_file, branch_file, files_to_delete, ops,
                   last_result, interrupted>>
    /\ KeepBefore

\* FilesToDelete::delete_files: each file is removed, up to the first removal
\* that fails (removed: all of them were); the command then returns Ok.
DeleteFiles(removed) ==
    /\ StepFrame
    /\ spc = "delete_files"
    /\ payloads' =
           IF removed
           THEN [n \in PayloadNames |->
                    IF \E k \in DOMAIN files_to_delete : files_to_delete[k] = n
                    THEN NoFile ELSE payloads[n]]
           ELSE payloads
    /\ spc' = "rest"
    /\ last_result' = "ok"
    /\ DropLocals
    /\ UNCHANGED <<repo_exists, head, branches, config, metas, diffs, tmp, ops,
                   interrupted>>
    /\ KeepBefore

\* The process is killed, or a write returns an I/O error, between two steps
\* of the command.
Interrupt ==
    /\ StepFrame
    /\ spc # "rest"
    /\ spc' = "rest"
    /\ last_result' = "interrupted"
    /\ interrupted' = TRUE
    /\ DropLocals
    /\ UNCHANGED <<repo_exists, head, branches, config, metas, payloads, diffs,
                   tmp, ops>>
    /\ KeepBefore

\* __debug_restore::main, lines 42-66: the walk from curr along the first
\* diff_child, each snapshot taken out of the map as it is visited.
RECURSIVE RestorePath(_, _, _)
RestorePath(curr_snapshot, snapshots, path) ==
    IF curr_snapshot = NoMeta THEN [path |-> path, path_found |-> FALSE]
    ELSE LET first == IF curr_snapshot.diff_children = <<>> THEN NoId
                      ELSE Head(curr_snapshot.diff_children)
             next_snapshot == IF first \in snapshots
                              THEN MetaRead(first, metas[first]) ELSE NoMeta
         IN IF curr_snapshot.full_type # "None"
            THEN [path |-> Append(path, curr_snapshot), path_found |-> TRUE]
            ELSE RestorePath(next_snapshot, snapshots \ {first},
                             Append(path, curr_snapshot))

\* __debug_restore::main, line 42: the target is taken out of the map.
WithoutTarget_Keeps(snapshots, snapshot_id) == snapshots

WithoutTarget(snapshots, snapshot_id) == snapshots \ {snapshot_id}

\* Vec::reverse.
Reverse(seq) == [k \in 1..Len(seq) |-> seq[Len(seq) + 1 - k]]

\* util::archive_utils::open_delta_list on a {id}-diff-{child} file: a file
\* that is missing cannot be opened, and one written by `xdelta delta`
\* (create_xdelta) makes the gzip decoder fail on the first read of
\* JBackupFileDeltaListReader::new.
OpenDeltaList(name) == IF name \in delta_lists THEN "ok" ELSE "err"

\* The path of a full payload, and of the temporary archive of a snapshot.
SnapshotPath(name) == [dir |-> "snapshots", name |-> name]

TmpRestoredPath(id) == [dir |-> "tmp-restored", name |-> id]

\* The files follow_path reads and writes: the full payloads and the
\* temporary archives, and the log of what was created and removed.
Files(full, restored_ids, log) ==
    [payloads |-> full, tmp_restored |-> restored_ids, log |-> log]

\* File::open succeeds on the path.
FileExists(files, path) ==
    IF path.dir = "snapshots" THEN files.payloads[path.name] # NoFile
    ELSE path.name \in files.tmp_restored

\* File::create on a temporary archive.
CreateFile(files, path) ==
    Files(files.payloads, files.tmp_restored \cup {path.name},
          Append(files.log, <<"create", path>>))

\* fs::remove_file.
RemoveFile(files, path) ==
    Files(IF path.dir = "snapshots"
          THEN [files.payloads EXCEPT ![path.name] = NoFile]
          ELSE files.payloads,
          IF path.dir = "snapshots" THEN files.tmp_restored
          ELSE files.tmp_restored \ {path.name},
          Append(files.log, <<"remove", path>>))

\* What follow_path gives: its result and the files it leaves.
Followed(out, files) == [out |-> out, files |-> files]

\* follow_path, line 156: the first archive read is never deleted.
DeletePrevFirst_True == TRUE

DeletePrevFirst == FALSE

\* follow_path, lines 158-181: the snapshots of the path from position k on
\* are rebuilt, each from the archive before it and a delta list.
RECURSIVE FollowLoop(_, _, _, _, _, _)
FollowLoop(target, path, k, prev_tar_path, delete_prev_tar_path, files) ==
    IF k > Len(path)
    THEN Followed(RestoreOut(target, "ok", "Restored to",
                             IF Len(path) = 1
                             THEN payloads[prev_tar_path.name]
                             ELSE taken[path[Len(path)].id]),
                  files)
    ELSE LET new_tar_path == TmpRestoredPath(path[k].id)
             list == DiffPath(path[k], path[k - 1].id)
             created == CreateFile(files, new_tar_path)
             failed(f) == Followed(RestoreOut(target, "err", "", NoFile), f)
         IN IF ~FileExists(files, prev_tar_path) THEN failed(files)
            ELSE IF OpenDeltaList(list) = "err" THEN failed(created)
            ELSE IF list \in bad_lists THEN failed(created)
            ELSE FollowLoop(target, path, k + 1, new_tar_path, TRUE,
                            IF delete_prev_tar_path
                            THEN RemoveFile(created, prev_tar_path)
                            ELSE created)

\* follow_path: the first snapshot of the path must be a tar.gz; every
\* further one is rebuilt from the previous archive and a delta list.
FollowPath(target, path) ==
    LET files == Files(payloads, tmp_restored, <<>>)
    IN IF path = <<>>
       THEN Followed(RestoreOut(target, "err", "", NoFile), files)
       ELSE IF Head(path).full_type # "TarGz"
       THEN Followed(RestoreOut(target, "panic", "", NoFile), files)
       ELSE FollowLoop(target, path, 2,
                       SnapshotPath(FullPayloadFilename(Head(path))),
                       DeletePrevFirst, files)

\* __debug_restore::main with the snapshot id snapshot_id.
DebugRestore(snapshot_id) ==
    /\ RestoreFrame
    /\ spc = "rest"
    /\ LET snapshots == {i \in Ids : MetaExists(i)}
           unchanged(out) ==
               Followed(out, Files(payloads, tmp_restored, <<>>))
       IN \E walk \in {RestorePath(IF snapshot_id \in snapshots
                                   THEN MetaRead(snapshot_id, metas[snapshot_id])
                                   ELSE NoMeta,
                                   WithoutTarget(snapshots, snapshot_id), <<>>)} :
          \E followed \in
                 {IF ~repo_exists \/ snapshots = {}
                  THEN \* lines 31-37
                       unchanged(RestoreOut(snapshot_id, "err", "", NoFile))
                  ELSE IF walk.path_found
                  THEN FollowPath(snapshot_id, Reverse(walk.path))
                  ELSE \* lines 75-79: println! and Ok(())
                       unchanged(RestoreOut(snapshot_id, "ok",
                                            "Path not found to", NoFile))} :
             /\ restore_out' = followed.out
             /\ payloads' = followed.files.payloads
             /\ tmp_restored' = followed.files.tmp_restored
             /\ restore_log' = followed.files.log
             /\ restore_walk' =
                    IF ~repo_exists \/ snapshots = {} THEN NoWalk ELSE walk
    /\ UNCHANGED <<repo_exists, head, branches, config, metas, diffs, tmp, spc,
                   staged, curr, head_file, branch_file, files_to_delete, ops,
                   last_result, interrupted, taken, before, delta_lists,
                   bad_lists>>

\* A meta file as get_all_snapshot_meta_files may find it: of the fields,
\* __debug_restore reads full_type and diff_children.
ChainMeta(id, full_type, diff_children) ==
    [NewMeta(id) EXCEPT !.full_type = full_type,
                        !.diff_children = diff_children]

\* The meta files a snapshots directory may hold for one id: none, a delta
\* snapshot with no diff child or any one (itself included), a full one.
ChainMetaFiles ==
    {NoMetaFile}
    \cup {Serialize(ChainMeta(NoId, "None", d)) :
              d \in {<<>>} \cup {<<j>> : j \in Ids}}
    \cup {Serialize(ChainMeta(NoId, t, <<>>)) : t \in {"Tar", "TarGz"}}

\* The delta lists the walks of a snapshots directory can ask for.
ChainLists(files) ==
    {<<i, Head(files[i].dchild)>> :
        i \in {j \in Ids : files[j] # NoMetaFile /\ files[j].dchild # <<>>}}

\* What is wrong with the snapshots directory: nothing, a full payload or a
\* delta list is missing, or a delta list does not apply.
Damages(files) ==
    {<<"none", NoId>>}
    \cup {<<"no_payload", i>> : i \in {j \in Ids : files[j] # NoMetaFile}}
    \cup {<<"no_list", l>> : l \in ChainLists(files)}
    \cup {<<"bad_list", l>> : l \in ChainLists(files)}

\* A repository whose snapshots directory holds any meta files: chains of
\* any length, cycles of diff children and diff children without a meta.
ChainInit ==
    /\ repo_exists = TRUE
    /\ head = NoHeadFile
    /\ branches = EmptyMap
    /\ config = <<>>
    /\ metas \in [Ids -> ChainMetaFiles]
    /\ \E damage \in Damages(metas) :
           /\ payloads =
                  [n \in PayloadNames |->
                      IF /\ metas[n[1]] # NoMetaFile
                         /\ metas[n[1]].full = n[2]
                         /\ damage # <<"no_payload", n[1]>>
                      THEN n[1] ELSE NoFile]
           /\ delta_lists = {l \in ChainLists(metas) : damage # <<"no_list", l>>}
           /\ bad_lists = {l \in ChainLists(metas) : damage = <<"bad_list", l>>}
    /\ diffs = delta_lists
    /\ tmp = NoFile
    /\ spc = "rest"
    /\ staged = NoMeta
    /\ curr = NoMeta
    /\ head_file = NoHeadFile
    /\ branch_file = EmptyMap
    /\ files_to_delete = <<>>
    /\ ops = 0
    /\ last_result = "none"
    /\ interrupted = FALSE
    /\ restore_out = NoRestoreOut
    /\ taken = [i \in Ids |-> IF metas[i] # NoMetaFile THEN i ELSE NoFile]
    /\ before = NoRepository
    /\ tmp_restored = {}
    /\ restore_log = <<>>
    /\ restore_walk = NoWalk

\* The restores that are run on one repository.
ChainNext == \E snapshot_id \in Ids : DebugRestore(snapshot_id)

\* No meta and no payload of the id is in snapshots/.
IdUnused(id) ==
    /\ ~MetaExists(id)
    /\ \A name \in PayloadNames : name[1] = id => ~PayloadExists(name)

\* create_full_snapshot, line 153: the id a run computes is one in use or a
\* new one. Ids are compared for equality only, so the new ones are numbered
\* as they appear, at most one number being skipped.
ComputedIds ==
    {i \in Ids : Cardinality({j \in 1..(i - 1) : IdUnused(j)}) <= 1}

RepoNext ==
    \/ \E transformer \in TransformerArgs : InitRepo(transformer)
    \/ \E id \in ComputedIds : SnapshotBegin(id)
    \/ CommitTmpSnapshot
    \/ CheckCollision
    \/ \E written \in BOOLEAN : CreateXDelta(written)
    \/ WriteStaged
    \/ WriteCurr
    \/ WriteHead
    \/ WriteBranches
    \/ \E removed \in BOOLEAN : DeleteFiles(removed)
    \/ Interrupt
    \/ \E snapshot_id \in Ids : DebugRestore(snapshot_id)

(* ====================================================================== *)
(*                  The delta list (src/delta_list.rs)                    *)
(* ====================================================================== *)

\* Strings and buffers are sequences of bytes. String's `<` compares the
\* bytes lexicographically.
RECURSIVE BytesLess(_, _)
BytesLess(a, b) ==
    IF b = <<>> THEN FALSE
    ELSE IF a = <<>> THEN TRUE
    ELSE IF a[1] # b[1] THEN a[1] < b[1]
    ELSE BytesLess(Tail(a), Tail(b))

\* The paths the archives are drawn from: "a", "a/x", "b", "b/x", ...
PathOf(i) ==
    IF i % 2 = 1 THEN <<96 + (i + 1) \div 2>> ELSE <<96 + i \div 2, 47, 120>>

\* The payloads the archives are drawn from: the empty file and one-byte files.
PayloadOf(v) == IF v = 1 THEN <<>> ELSE <<v>>

\* The entries of a tar archive, in the order they were appended: the path
\* and the data of each. f gives each path its payload, 0 for no entry.
RECURSIVE ArchiveFrom(_, _)
ArchiveFrom(f, i) ==
    IF i > MaxPaths THEN <<>>
    ELSE (IF f[i] = 0 THEN <<>>
          ELSE <<[path |-> PathOf(i), data |-> PayloadOf(f[i])]>>)
         \o ArchiveFrom(f, i + 1)

\* The archives whose entries are in strictly ascending path order.
Archives == {ArchiveFrom(f, 1) : f \in [1..MaxPaths -> 0..MaxPayloads]}

\* The data of the entry of the archive at path p.
DataAt(archive, p) ==
    archive[CHOOSE k \in DOMAIN archive : archive[k].path = p].data

\* The pairs of buffers xdelta3::encode is called with for the two
\* archives: the data of end and of start at each path both have.
PayloadPairs(start, end) ==
    {<<DataAt(end, p), DataAt(start, p)>> :
        p \in {start[k].path : k \in DOMAIN start}
               \cap {end[k].path : k \in DOMAIN end}}

\* The first byte of a VCDIFF stream, which xdelta3 writes and looks for.
VcdiffMagic == 214

\* xdelta3::encode(input, src) when it returns Some: a patch that starts
\* with the magic, carries the target and names the source it applies to.
XdPatch(input, src) == <<VcdiffMagic, Len(src)>> \o src \o input

\* encode giving no patch for a file that has not changed.
Encode_NoneWhenEqual(input, src, none) ==
    IF <<input, src>> \in none \/ input = src THEN None
    ELSE Some(XdPatch(input, src))

\* xdelta3::encode(input, src): Option<Vec<u8>>. The library decides when it
\* returns None; none holds the pairs it does so for.
Encode(input, src, none) ==
    IF <<input, src>> \in none THEN None ELSE Some(XdPatch(input, src))

\* xdelta3::decode(patch, src): Option<Vec<u8>>, None when the patch does
\* not apply to src.
Decode(patch, src) ==
    IF /\ Len(patch) > Len(src) + 1
       /\ patch[1] = VcdiffMagic
       /\ patch[2] = Len(src)
       /\ SubSeq(patch, 3, Len(src) + 2) = src
    THEN Some(SubSeq(patch, Len(src) + 3, Len(patch)))
    ELSE None

\* JBackupDelta: the path and the JBackupDeltaContent (data: the xdelta of
\* Modified, the content of Added).
Delta(path, op, data) == [path |-> path, op |-> op, data |-> data]

\* The delta records generate_delta_list adds, in order, for the entries
\* start and end still to be read.
RECURSIVE GenerateDeltas(_, _, _)
GenerateDeltas(start, end, none) ==
    IF start # <<>> /\ end # <<>> THEN
        LET start_entry == Head(start)
            end_entry == Head(end)
        IN IF start_entry.path = end_entry.path THEN
               LET res == Encode(end_entry.data, start_entry.data, none)
               IN (IF res # None
                   THEN <<Delta(start_entry.path, "Modified", res.some)>>
                   ELSE <<>>)
                  \o GenerateDeltas(Tail(start), Tail(end), none)
           ELSE IF BytesLess(start_entry.path, end_entry.path) THEN
               <<Delta(start_entry.path, "Deleted", <<>>)>>
               \o GenerateDeltas(Tail(start), end, none)
           ELSE
               <<Delta(end_entry.path, "Added", end_entry.data)>>
               \o GenerateDeltas(start, Tail(end), none)
    ELSE IF start # <<>> THEN
        <<Delta(Head(start).path, "Deleted", <<>>)>>
        \o GenerateDeltas(Tail(start), end, none)
    ELSE IF end # <<>> THEN
        <<Delta(Head(end).path, "Added", Head(end).data)>>
        \o GenerateDeltas(start, Tail(end), none)
    ELSE <<>>

\* u64::to_be_bytes, for a length below 2^31.
U64Bytes(n) ==
    [k \in 1..8 |-> IF k <= 4 THEN 0 ELSE (n \div (256 ^ (8 - k))) % 256]

\* JBackupFileDeltaListWriter::add_bytes (add_string: the same on the
\* string's bytes).
AddBytes(bytes) == U64Bytes(Len(bytes)) \o bytes

\* add with Modified written under the tag of Added.
AddDelta_ModifiedAsAdded(delta) ==
    AddBytes(delta.path)
    \o (IF delta.op = "Deleted" THEN <<1>> ELSE <<3>> \o AddBytes(delta.data))

\* JBackupFileDeltaListWriter::add: the bytes one record is written as.
AddDelta(delta) ==
    AddBytes(delta.path)
    \o (CASE delta.op = "Deleted" -> <<1>>
          [] delta.op = "Modified" -> <<2>> \o AddBytes(delta.data)
          [] delta.op = "Added" -> <<3>> \o AddBytes(delta.data))

\* JBackupFileDeltaListWriter::new: 'DL' and 1u32, big-endian.
DeltaListHeader == <<68, 76, 0, 0, 0, 1>>

\* The bytes a writer has written after the records deltas were added.
RECURSIVE WriteDeltas(_)
WriteDeltas(deltas) ==
    IF deltas = <<>> THEN <<>>
    ELSE AddDelta(Head(deltas)) \o WriteDeltas(Tail(deltas))

\* What a read of the delta list gives: the kind of result ("ok", "err",
\* "panic"; for next() "some" and "none"), the value and the bytes left.
ReadResult(kind, value, rest) == [kind |-> kind, value |-> value, rest |-> rest]

\* String::from_utf8 succeeds: the bytes used here are ASCII or, from 128
\* on, bytes that start no valid sequence.
IsUtf8(bytes) == \A k \in DOMAIN bytes : bytes[k] < 128

\* bytes_len > 1_000_000_000, for the eight bytes of a u64.
TooLong(b) ==
    \/ \E k \in 1..4 : b[k] # 0
    \/ b[5] >= 64
    \/ b[5] * (256 ^ 3) + b[6] * (256 ^ 2) + b[7] * 256 + b[8] > 1000000000

\* JBackupFileDeltaListReader::read_bytes.
ReadBytes(stream) ==
    IF Len(stream) < 8 THEN ReadResult("err", <<>>, <<>>)
    ELSE IF TooLong(stream) THEN ReadResult("panic", <<>>, <<>>)
    ELSE LET bytes_len ==
                 stream[5] * (256 ^ 3) + stream[6] * (256 ^ 2)
                 + stream[7] * 256 + stream[8]
         IN IF Len(stream) < 8 + bytes_len THEN ReadResult("err", <<>>, <<>>)
            ELSE ReadResult("ok", SubSeq(stream, 9, 8 + bytes_len),
                            SubSeq(stream, 9 + bytes_len, Len(stream)))

\* new comparing the two magic bytes only.
ReaderNew_MagicOnly(stream) ==
    IF Len(stream) < 6 THEN ReadResult("err", "File too short", <<>>)
    ELSE IF SubSeq(stream, 1, 2) = SubSeq(DeltaListHeader, 1, 2)
    THEN ReadResult("ok", <<>>, SubSeq(stream, 7, Len(stream)))
    ELSE ReadResult("err", "Header magic number doesn't match", <<>>)

\* JBackupFileDeltaListReader::new on the bytes of the file.
ReaderNew(stream) ==
    IF Len(stream) < 6 THEN ReadResult("err", "File too short", <<>>)
    ELSE IF SubSeq(stream, 1, 6) = DeltaListHeader
    THEN ReadResult("ok", <<>>, SubSeq(stream, 7, Len(stream)))
    ELSE ReadResult("err", "Header magic number doesn't match", <<>>)

\* JBackupFileDeltaListReader::next on the bytes not read yet.
ReaderNext(stream) ==
    LET path == ReadBytes(stream)
    IN IF path.kind = "panic" THEN ReadResult("panic", <<>>, <<>>)
       ELSE IF path.kind = "err" \/ ~IsUtf8(path.value)
       THEN ReadResult("none", <<>>, <<>>)
       ELSE IF path.rest = <<>> THEN ReadResult("err", <<>>, <<>>)
       ELSE LET op_type == Head(path.rest)
                content == ReadBytes(Tail(path.rest))
            IN IF op_type = 1
               THEN ReadResult("some", Delta(path.value, "Deleted", <<>>),
                               Tail(path.rest))
               ELSE IF op_type \in {2, 3}
               THEN IF content.kind # "ok"
                    THEN ReadResult(content.kind, <<>>, <<>>)
                    ELSE ReadResult("some",
                                    Delta(path.value,
                                          IF op_type = 2 THEN "Modified"
                                          ELSE "Added",
                                          content.value),
                                    content.rest)
               ELSE ReadResult("err", <<>>, <<>>)

\* The result of restore_from_delta_list and the entries appended to end_tar.
Restored(kind, entries) == [kind |-> kind, entries |-> entries]

\* Some(Err(e)) of the entries iterator: the read of the entry failed.
EntryErr == [path |-> <<>>, data |-> <<>>, err |-> TRUE]

IsErr(entry) == "err" \in DOMAIN entry

\* The entries the iterator of an archive gives when the read of entry
\* number fails fails (0: none).
EntriesOf(entries, fails) ==
    [k \in DOMAIN entries |-> IF k = fails THEN EntryErr ELSE entries[k]]

\* The let-else that lets a Deleted record through.
NotAdded_OnlyModified(delta) == delta.op = "Modified"

\* restore_from_delta_list, lines 151 and 180: the let-else on
\* JBackupDeltaContent::Added.
NotAdded(delta) == delta.op # "Added"

\* restore_from_delta_list returning the error of the entry.
AfterEntryErr_Returns(out) == Restored("err", out)

\* restore_from_delta_list, lines 192-201, after the arm `_ => {}` of line
\* 195: (None, None) breaks the loop and Ok(()) is returned.
AfterEntryErr(out) == Restored("ok", out)

\* The loop of restore_from_delta_list: start are the entries of start_tar
\* not read yet, delta_entry the last result of delta_list.next(), out the
\* entries appended to end_tar so far.
RECURSIVE RestoreLoop(_, _, _)
RestoreLoop(start, delta_entry, out) ==
    IF delta_entry.kind \in {"err", "panic"}
    THEN Restored(delta_entry.kind, out)
    ELSE IF start # <<>> /\ IsErr(Head(start))
    THEN \* line 195: both take() left None, the next turn breaks
         AfterEntryErr(out)
    ELSE IF start # <<>> /\ delta_entry.kind = "some" THEN
        LET start_entry == Head(start)
            delta == delta_entry.value
        IN IF start_entry.path = delta.path THEN
               IF delta.op = "Modified" THEN
                   LET res == Decode(delta.data, start_entry.data)
                   IN RestoreLoop(Tail(start), ReaderNext(delta_entry.rest),
                          Append(out, [path |-> start_entry.path,
                                       data |-> IF res # None THEN res.some
                                                ELSE start_entry.data]))
               ELSE IF delta.op = "Deleted" THEN
                   RestoreLoop(Tail(start), ReaderNext(delta_entry.rest), out)
               ELSE Restored("err", out)
           ELSE IF BytesLess(start_entry.path, delta.path) THEN
               RestoreLoop(Tail(start), delta_entry, Append(out, start_entry))
           ELSE IF NotAdded(delta) THEN Restored("err", out)
           ELSE RestoreLoop(start, ReaderNext(delta_entry.rest),
                    Append(out, [path |-> delta.path, data |-> delta.data]))
    ELSE IF start # <<>> THEN
        RestoreLoop(Tail(start), delta_entry, Append(out, Head(start)))
    ELSE IF delta_entry.kind = "some" THEN
        IF NotAdded(delta_entry.value) THEN Restored("err", out)
        ELSE RestoreLoop(start, ReaderNext(delta_entry.rest),
                 Append(out, [path |-> delta_entry.value.path,
                              data |-> delta_entry.value.data]))
    ELSE Restored("ok", out)

\* No call has been made.
NotRestored == Restored("none", <<>>)

\* The loop of __debug_delta::inverse, lines 169-276: the copy of the loop
\* of restore_from_delta_list that the debug command runs.
RECURSIVE InverseLoop(_, _, _)
InverseLoop(start, delta_entry, out) ==
    IF delta_entry.kind \in {"err", "panic"}
    THEN Restored(delta_entry.kind, out)
    ELSE IF start # <<>> /\ IsErr(Head(start))
    THEN \* line 274
         Restored("ok", out)
    ELSE IF start # <<>> /\ delta_entry.kind = "some" THEN
        LET start_entry == Head(start)
            delta == delta_entry.value
        IN IF start_entry.path = delta.path THEN
               IF delta.op = "Modified" THEN
                   LET res == Decode(delta.data, start_entry.data)
                   IN InverseLoop(Tail(start), ReaderNext(delta_entry.rest),
                          IF res # None
                          THEN Append(out, [path |-> start_entry.path,
                                            data |-> res.some])
                          ELSE \* lines 190-192: eprintln! only
                               out)
               ELSE IF delta.op = "Deleted" THEN
                   InverseLoop(Tail(start), ReaderNext(delta_entry.rest), out)
               ELSE Restored("err", out)
           ELSE IF BytesLess(start_entry.path, delta.path) THEN
               InverseLoop(Tail(start), delta_entry, Append(out, start_entry))
           ELSE IF delta.op # "Added" THEN Restored("err", out)
           ELSE InverseLoop(start, ReaderNext(delta_entry.rest),
                    Append(out, [path |-> delta.path, data |-> delta.data]))
    ELSE IF start # <<>> THEN
        InverseLoop(Tail(start), delta_entry, Append(out, Head(start)))
    ELSE IF delta_entry.kind = "some" THEN
        IF delta_entry.value.op # "Added" THEN Restored("err", out)
        ELSE InverseLoop(start, ReaderNext(delta_entry.rest),
                 Append(out, [path |-> delta_entry.value.path,
                              data |-> delta_entry.value.data]))
    ELSE Restored("ok", out)

\* What was changed in the file: the kind of byte ("magic", "version",
\* "tag", "utf8": a byte of a path; "short", "cut": the file was cut) and
\* its place.
Flip(kind, at) == [kind |-> kind, at |-> at]

\* The file is as the writer wrote it.
NoFlip == Flip("none", 0)

\* The delta engine is not used.
DeltaIdle ==
    /\ start_tar = <<>>
    /\ start_fails = 0
    /\ dl_records = <<>>
    /\ dl_flip = NoFlip
    /\ end_tar = <<>>
    /\ no_patch = {}
    /\ delta_list = <<>>
    /\ restored = NotRestored
    /\ inverted = NotRestored
    /\ dl_pc = "idle"

\* The two archives a delta list is generated from, and the pairs of
\* buffers xdelta3::encode yields no patch for, among those it is called
\* with.
DeltaInit ==
    /\ start_tar \in Archives
    /\ start_fails = 0
    /\ dl_records = <<>>
    /\ dl_flip = NoFlip
    /\ end_tar \in Archives
    /\ no_patch \in {n \in SUBSET PayloadPairs(start_tar, end_tar) :
                        Cardinality(n) <= MaxNoPatch}
    /\ delta_list = <<>>
    /\ restored = NotRestored
    /\ inverted = NotRestored
    /\ dl_pc = "input"

\* generate_delta_list(start_tar, end_tar, delta_list), the writer just
\* created by create_delta_list.
GenerateDeltaList ==
    /\ dl_pc = "input"
    /\ dl_records' = GenerateDeltas(start_tar, end_tar, no_patch)
    /\ delta_list' = DeltaListHeader \o WriteDeltas(dl_records')
    /\ dl_pc' = "generated"
    /\ UNCHANGED <<start_tar, start_fails, end_tar, no_patch, dl_flip, restored,
                   inverted>>
    /\ DeltaFrame

\* open_delta_list on the file written, then
\* restore_from_delta_list(start_tar, end_tar, delta_list).
RestoreFromDeltaList ==
    /\ dl_pc = "generated"
    /\ LET reader == ReaderNew(delta_list)
       IN restored' = IF reader.kind = "err" THEN Restored("err", <<>>)
                      ELSE RestoreLoop(EntriesOf(start_tar, start_fails),
                                       ReaderNext(reader.rest), <<>>)
    /\ dl_pc' = "restored"
    /\ UNCHANGED <<start_tar, start_fails, end_tar, no_patch, dl_records,
                   delta_list, dl_flip, inverted>>
    /\ DeltaFrame

DeltaNext ==
    \/ GenerateDeltaList
    \/ RestoreFromDeltaList

\* The paths the records and the source archive of an applied list are
\* drawn from.
ApplyPaths == {PathOf(i) : i \in 1..MaxRecords}

\* The records of an applied list: for each path a Deleted, a Modified with
\* the patch from the empty file to a one-byte file, a Modified with a patch
\* made from another file, an Added of the one-byte file.
ApplyRecords ==
    {Delta(path, "Deleted", <<>>) : path \in ApplyPaths}
    \cup {Delta(path, "Modified", XdPatch(<<2>>, <<>>)) : path \in ApplyPaths}
    \cup {Delta(path, "Modified", XdPatch(<<2>>, <<3>>)) : path \in ApplyPaths}
    \cup {Delta(path, "Added", <<2>>) : path \in ApplyPaths}

\* The lists of records a file may hold, in any order.
RecordLists == UNION {[1..n -> ApplyRecords] : n \in 0..MaxRecords}

\* The entries of a source archive: an empty file at each path f holds of,
\* in the order of the paths.
RECURSIVE SourceFrom(_, _)
SourceFrom(f, i) ==
    IF i > MaxRecords THEN <<>>
    ELSE (IF f[i] THEN <<[path |-> PathOf(i), data |-> <<>>]>> ELSE <<>>)
         \o SourceFrom(f, i + 1)

\* The source archives: empty files at some of the paths, in strictly
\* ascending path order.
SourceArchives == {SourceFrom(f, 1) : f \in [1..MaxRecords -> BOOLEAN]}

\* The paths of the records are in strictly ascending order, as
\* generate_delta_list adds them for archives in that order.
RecordsAscending(records) ==
    \A k \in 1..(Len(records) - 1) :
        BytesLess(records[k].path, records[k + 1].path)

\* The places of the op tags in the file, for the records written from
\* place at + 1 on.
RECURSIVE TagPlaces(_, _)
TagPlaces(records, at) ==
    IF records = <<>> THEN {}
    ELSE {at + 8 + Len(Head(records).path) + 1}
         \cup TagPlaces(Tail(records), at + Len(AddDelta(Head(records))))

\* A source archive, possibly with an entry whose read fails, and a delta
\* list file written from a list of records.
ApplyInit ==
    /\ start_tar \in SourceArchives
    /\ start_fails \in 0..Len(start_tar)
    /\ end_tar = <<>>
    /\ no_patch = {}
    /\ dl_records \in RecordLists
    /\ delta_list = DeltaListHeader \o WriteDeltas(dl_records)
    /\ dl_flip = NoFlip
    /\ restored = NotRestored
    /\ inverted = NotRestored
    /\ dl_pc = "generated"

\* One byte of the magic, of the version or of an op tag of a file that
\* generate_delta_list wrote is changed to another value.
FlipByte(at, byte) ==
    /\ dl_pc = "generated"
    /\ dl_flip = NoFlip
    /\ start_fails = 0
    /\ RecordsAscending(dl_records)
    /\ at \in 1..6 \cup TagPlaces(dl_records, 6)
    /\ byte # delta_list[at]
    /\ delta_list' = [delta_list EXCEPT ![at] = byte]
    /\ dl_flip' = Flip(IF at <= 2 THEN "magic" ELSE IF at <= 6 THEN "version"
                       ELSE "tag", at)
    /\ UNCHANGED <<start_tar, start_fails, end_tar, no_patch, dl_records,
                   restored, inverted, dl_pc>>
    /\ DeltaFrame

\* The file is cut to fewer bytes than the header has.
Truncate(n) ==
    /\ dl_pc = "generated"
    /\ dl_flip = NoFlip
    /\ start_fails = 0
    /\ delta_list' = SubSeq(delta_list, 1, n)
    /\ dl_flip' = Flip("short", n)
    /\ UNCHANGED <<start_tar, start_fails, end_tar, no_patch, dl_records,
                   restored, inverted, dl_pc>>
    /\ DeltaFrame

\* The places of the path fields in the file, for the records written from
\* place at + 1 on: the eight bytes of the length from from on, the bytes
\* of the path up to to.
RECURSIVE PathFields(_, _)
PathFields(records, at) ==
    IF records = <<>> THEN {}
    ELSE {[from |-> at + 1, to |-> at + 8 + Len(Head(records).path)]}
         \cup PathFields(Tail(records), at + Len(AddDelta(Head(records))))

\* The file is cut to n bytes, inside the length or the bytes of the path
\* of a record.
CutPath(n) ==
    /\ dl_pc = "generated"
    /\ dl_flip = NoFlip
    /\ start_fails = 0
    /\ RecordsAscending(dl_records)
    /\ \E field \in PathFields(dl_records, 6) : field.from <= n /\ n < field.to
    /\ delta_list' = SubSeq(delta_list, 1, n)
    /\ dl_flip' = Flip("cut", n)
    /\ UNCHANGED <<start_tar, start_fails, end_tar, no_patch, dl_records,
                   restored, inverted, dl_pc>>
    /\ DeltaFrame

\* A byte of the path of a record is changed to one that no UTF-8 string
\* holds.
BadPath(at) ==
    /\ dl_pc = "generated"
    /\ dl_flip = NoFlip
    /\ start_fails = 0
    /\ RecordsAscending(dl_records)
    /\ \E field \in PathFields(dl_records, 6) :
           field.from + 8 <= at /\ at <= field.to
    /\ delta_list' = [delta_list EXCEPT ![at] = 255]
    /\ dl_flip' = Flip("utf8", at)
    /\ UNCHANGED <<start_tar, start_fails, end_tar, no_patch, dl_records,
                   restored, inverted, dl_pc>>
    /\ DeltaFrame

\* __debug_delta::inverse on the files restore_from_delta_list was given.
Inverse ==
    /\ dl_pc = "restored"
    /\ LET reader == ReaderNew(delta_list)
       IN inverted' = IF reader.kind = "err" THEN Restored("err", <<>>)
                      ELSE InverseLoop(EntriesOf(start_tar, start_fails),
                                       ReaderNext(reader.rest), <<>>)
    /\ dl_pc' = "inverted"
    /\ UNCHANGED <<start_tar, start_fails, end_tar, no_patch, dl_records,
                   delta_list, dl_flip, restored>>
    /\ DeltaFrame

ApplyNext ==
    \/ \E at \in 1..(6 + MaxRecords * 32), byte \in 0..MaxFlipByte :
           FlipByte(at, byte)
    \/ \E n \in 0..5 : Truncate(n)
    \/ \E n \in 7..(6 + MaxRecords * 32) : CutPath(n)
    \/ \E at \in 7..(6 + MaxRecords * 32) : BadPath(at)
    \/ RestoreFromDeltaList
    \/ Inverse

(* ====================================================================== *)
(*        The file-tree walker (src/subcommand/snapshot.rs)               *)
(* ====================================================================== *)

\* The file names the working tree is drawn from: "a", "b", ...
NameOf(i) == <<96 + i>>

Names == {NameOf(i) : i \in 1..MaxNames}

\* ".jbackup", the directory the walker leaves out at depth 0.
JBackupName == <<46, 106, 98, 97, 99, 107, 117, 112>>

\* The names an entry of the working directory may have.
TopNames == Names \cup {JBackupName}

\* The regular files a working tree may hold, each the names from the
\* working directory down to the file.
FilePaths ==
    {<<n>> : n \in TopNames} \cup {<<n, m>> : n \in TopNames, m \in Names}

\* Directory dir lies above the file or directory at path p.
IsAbove(dir, p) == Len(dir) < Len(p) /\ SubSeq(p, 1, Len(dir)) = dir

\* The working trees: no name is a file and a directory at once.
Trees == {t \in SUBSET FilePaths : \A p \in t, q \in t : ~IsAbove(p, q)}

\* Vec<OsString>::sort on the names of a directory.
RECURSIVE SortNames(_)
SortNames(set) ==
    IF set = {} THEN <<>>
    ELSE LET least == CHOOSE n \in set : \A m \in set \ {n} : BytesLess(n, m)
         IN <<least>> \o SortNames(set \ {least})

\* The path the walker builds for the names from the start directory ".":
\* dir_path, "/" and the name pushed at each level.
RECURSIVE PathString(_)
PathString(names) ==
    IF names = <<>> THEN <<46>>
    ELSE PathString(SubSeq(names, 1, Len(names) - 1))
         \o <<47>> \o names[Len(names)]

\* _walk_file_tree(dir, depth, file_handler): the paths file_handler is
\* called with, in order. WalkDirectories is its second loop.
RECURSIVE WalkFileTree(_, _, _)
RECURSIVE WalkDirectories(_, _, _, _)
WalkFileTree(tree, dir, depth) ==
    LET sorted_files == SortNames({n \in TopNames : Append(dir, n) \in tree})
        sorted_directories ==
            SortNames({n \in TopNames :
                          /\ \E p \in tree : IsAbove(Append(dir, n), p)
                          /\ (depth # 0 \/ n # JBackupName)})
    IN [k \in DOMAIN sorted_files |-> PathString(Append(dir, sorted_files[k]))]
       \o WalkDirectories(tree, dir, depth, sorted_directories)

WalkDirectories(tree, dir, depth, directories) ==
    IF directories = <<>> THEN <<>>
    ELSE WalkFileTree(tree, Append(dir, Head(directories)), depth + 1)
         \o WalkDirectories(tree, dir, depth, Tail(directories))

\* create_tmp_tar, line 225: the entry is appended under &file_path[2..].
EntryPath(file_path) == SubSeq(file_path, 3, Len(file_path))

\* The walker is not used.
WalkIdle ==
    /\ work_tree = {}
    /\ emitted = <<>>
    /\ archived = <<>>
    /\ walk_pc = "idle"

\* The working tree a snapshot is taken of.
WalkInit ==
    /\ work_tree \in Trees
    /\ emitted = <<>>
    /\ archived = <<>>
    /\ walk_pc = "input"

\* create_tmp_tar: walk_file_tree(".") with the callback that appends each
\* file to the archive.
CreateTmpTar ==
    /\ walk_pc = "input"
    /\ emitted' = WalkFileTree(work_tree, <<>>, 0)
    /\ archived' = [k \in DOMAIN emitted' |-> EntryPath(emitted'[k])]
    /\ walk_pc' = "done"
    /\ UNCHANGED work_tree
    /\ WalkFrame

WalkNext == CreateTmpTar

(* ====================================================================== *)
(*   The transformers (src/transformer.rs, src/transformer/minecraft_mca.rs) *)
(* ====================================================================== *)

\* SECTOR_SIZE.
SectorSize == 4096

\* The chunks of a region: CHUNKS_IN_REGION is 1024, the model keeps the
\* first MaxChunks of them.
Chunks == 1..MaxChunks

\* The data of a chunk: the NBT data d, uncompressed (z = "none") or as the
\* zlib stream a compression level produces from it.
ChunkData(d, z) == [d |-> d, z |-> z]

\* The number of bytes of a chunk's data; z = "bytes" is a buffer of d bytes
\* that is no NBT data.
DataLen(data) ==
    IF data.z = "bytes" THEN data.d
    ELSE IF data.z = "none" THEN 100 * data.d
    ELSE IF data.z = "fast" THEN 10 * data.d + 1
    ELSE 10 * data.d

\* What an operation on a region file gives: Ok(value) ("ok"), Err ("err") or
\* a panic.
Result(kind, value) == [kind |-> kind, value |-> value]

\* ZlibEncoder::new(.., Compression::fast()) on uncompressed data.
ZlibEncodeFast(data) == ChunkData(data.d, "fast")

\* ZlibDecoder::read_to_end.
ZlibDecode(data) ==
    IF data.z \in {"none", "bytes"} THEN Result("err", data)
    ELSE Result("ok", ChunkData(data.d, "none"))

\* struct ChunkDescriptor.
ChunkDescriptor(sector_offset, sector_count, timestamp) ==
    [offset |-> sector_offset, sector_count |-> sector_count,
     timestamp |-> timestamp]

\* ChunkDescriptor::is_exists.
IsExists(descriptor) == descriptor.offset # 0 /\ descriptor.sector_count # 0

\* A sector of the payload that starts a chunk: the length field, the
\* compression scheme and the data.
ChunkSector(length, scheme, data) ==
    [length |-> length, scheme |-> scheme, data |-> data]

\* A sector holding padding only.
ZeroSector == ChunkSector(0, 0, ChunkData(0, "none"))

\* The contents of a region file: the two header tables as one descriptor
\* per chunk, and the sectors from sector 2 on.
Region(chunks, sectors) == [chunks |-> chunks, sectors |-> sectors]

\* The value next to an Err.
NoRegion == Region(<<>>, <<>>)

\* RegionFileFormatReader::get_chunk_i.
GetChunkI(reader, i) == reader.chunks[i]

\* RegionFileFormatReader::read_chunk_uncompressed.
ReadChunkUncompressed(reader, descriptor) ==
    IF ~IsExists(descriptor) THEN Result("err", ZeroSector.data)
    ELSE IF descriptor.offset - 1 \notin DOMAIN reader.sectors
    THEN Result("panic", ZeroSector.data)
    ELSE LET sector == reader.sectors[descriptor.offset - 1]
         IN IF sector.length <= 0 THEN Result("err", ZeroSector.data)
            ELSE IF sector.length > descriptor.sector_count * SectorSize
            THEN Result("err", ZeroSector.data)
            ELSE IF sector.scheme = 2 THEN ZlibDecode(sector.data)
            ELSE IF sector.scheme = 3 THEN Result("ok", sector.data)
            ELSE Result("err", ZeroSector.data)

\* RegionFileFormatWriter::new.
RegionWriterNew ==
    [next_chunk_i_must_be_ge |-> 0,
     chunks |-> [i \in Chunks |-> ChunkDescriptor(0, 0, 0)],
     next_sector_i |-> 2,
     payload |-> <<>>]

\* usize::div_ceil.
DivCeil(a, b) == (a + b - 1) \div b

\* The number of values of a u8.
U8 == 256

\* RegionFileFormatWriter::add_chunk, lines 294-298: the addition panics.
AddChunkPanics(writer, chunk_i) == chunk_i < writer.next_chunk_i_must_be_ge

\* RegionFileFormatWriter::add_chunk, lines 300-321: no line assigns
\* next_chunk_i_must_be_ge, and `sector_count as u8` keeps the low 8 bits.
AddChunk(writer, chunk_i, timestamp, compression_scheme, payload) ==
    LET sector_count == DivCeil(DataLen(payload) + 5, SectorSize)
    IN [next_chunk_i_must_be_ge |-> writer.next_chunk_i_must_be_ge,
        chunks |-> [writer.chunks EXCEPT ![chunk_i] =
                       ChunkDescriptor(writer.next_sector_i, sector_count % U8,
                                       timestamp)],
        next_sector_i |-> writer.next_sector_i + sector_count,
        payload |-> Append(writer.payload,
                           ChunkSector(DataLen(payload) + 1, compression_scheme,
                                       payload))
                    \o [k \in 1..(sector_count - 1) |-> ZeroSector]]

\* RegionFileFormatWriter::serialize.
Serialize_Region(writer) ==
    IF \E i \in Chunks : writer.chunks[i].offset > 16777215
    THEN Result("err", NoRegion)
    ELSE Result("ok", Region(writer.chunks, writer.payload))

\* transform_region_file_to_uncompressed, from chunk i on.
RECURSIVE TransformRegionFileToUncompressed(_, _, _)
TransformRegionFileToUncompressed(reader, i, writer) ==
    IF i > MaxChunks THEN Serialize_Region(writer)
    ELSE LET desc == GetChunkI(reader, i)
             payload == ReadChunkUncompressed(reader, desc)
         IN IF ~IsExists(desc)
            THEN TransformRegionFileToUncompressed(reader, i + 1, writer)
            ELSE IF payload.kind # "ok" THEN Result(payload.kind, NoRegion)
            ELSE IF AddChunkPanics(writer, i) THEN Result("panic", NoRegion)
            ELSE TransformRegionFileToUncompressed(reader, i + 1,
                     AddChunk(writer, i, desc.timestamp, 3, payload.value))

\* transform_region_file_to_compressed, from chunk i on: the chunk is read
\* before is_exists is looked at.
RECURSIVE TransformRegionFileToCompressed(_, _, _)
TransformRegionFileToCompressed(reader, i, writer) ==
    IF i > MaxChunks THEN Serialize_Region(writer)
    ELSE LET desc == GetChunkI(reader, i)
             payload == ReadChunkUncompressed(reader, desc)
         IN IF payload.kind # "ok" THEN Result(payload.kind, NoRegion)
            ELSE IF IsExists(desc) /\ AddChunkPanics(writer, i)
            THEN Result("panic", NoRegion)
            ELSE IF IsExists(desc)
            THEN TransformRegionFileToCompressed(reader, i + 1,
                     AddChunk(writer, i, desc.timestamp, 2,
                              ZlibEncodeFast(payload.value)))
            ELSE TransformRegionFileToCompressed(reader, i + 1, writer)

\* str::ends_with.
EndsWith(path, suffix) ==
    /\ Len(path) >= Len(suffix)
    /\ SubSeq(path, Len(path) - Len(suffix) + 1, Len(path)) = suffix

\* ".mca".
McaSuffix == <<46, 109, 99, 97>>

\* McaTransformer::transform_in: region files are rewritten, every other
\* file passes through.
TransformIn(name, file_path, raw_contents) ==
    IF EndsWith(file_path, McaSuffix)
    THEN TransformRegionFileToUncompressed(raw_contents, 1, RegionWriterNew)
    ELSE Result("ok", raw_contents)

\* McaTransformer::transform_out.
TransformOut(name, file_path, transformed_contents) ==
    IF EndsWith(file_path, McaSuffix)
    THEN TransformRegionFileToCompressed(transformed_contents, 1, RegionWriterNew)
    ELSE Result("ok", transformed_contents)

\* What a chain of transformers gives: the result and the positions of the
\* transformers called, in the order of the calls.
Chained(result, log) == [result |-> result, log |-> log]

\* create_tmp_tar, lines 206-210: transform_in of each transformer of the
\* list from position k on, the first Err ending the snapshot.
RECURSIVE IngestChain(_, _, _, _, _)
IngestChain(list, k, file_path, data, log) ==
    IF k > Len(list) THEN Chained(Result("ok", data), log)
    ELSE LET res == TransformIn(list[k], file_path, data)
         IN IF res.kind # "ok" THEN Chained(res, Append(log, k))
            ELSE IngestChain(list, k + 1, file_path, res.value, Append(log, k))

\* __debug_restore::main2, lines 127-129: transform_out of each transformer
\* of the list from position k on.
RECURSIVE ExtractChain(_, _, _, _, _)
ExtractChain(list, k, file_path, data, log) ==
    IF k > Len(list) THEN Chained(Result("ok", data), log)
    ELSE LET res == TransformOut(list[k], file_path, data)
         IN IF res.kind # "ok" THEN Chained(res, Append(log, k))
            ELSE ExtractChain(list, k + 1, file_path, res.value, Append(log, k))

\* The first bound chunks of a region file that may exist: a chunk is absent
\* (0) or holds data compressed with zlib at the fast level, at another level,
\* or not compressed.
ChunkChoices == {"absent", "fast", "default", "none"}

\* The positions of the chunks that exist, in ascending order.
RECURSIVE ExistingFrom(_, _)
ExistingFrom(choice, i) ==
    IF i > MaxChunks THEN <<>>
    ELSE (IF choice[i] = "absent" THEN <<>> ELSE <<i>>)
         \o ExistingFrom(choice, i + 1)

\* The place of x in a sequence without repetitions.
IndexOf(seq, x) == CHOOSE k \in DOMAIN seq : seq[k] = x

\* The region file whose chunks are as choice says, the chunks that exist
\* laid out from sector 2 on in the order layout, one sector each.
RegionOf(choice, layout) ==
    Region([i \in Chunks |->
               IF choice[i] = "absent" THEN ChunkDescriptor(0, 0, 0)
               ELSE ChunkDescriptor(1 + IndexOf(layout, i), 1, 10 + i)],
           [k \in DOMAIN layout |->
               LET data == ChunkData(layout[k], choice[layout[k]])
               IN ChunkSector(DataLen(data) + 1,
                              IF choice[layout[k]] = "none" THEN 3 ELSE 2,
                              data)])

\* The region files of the model.
Regions ==
    UNION {{RegionOf(choice, ExistingFrom(choice, 1)),
            RegionOf(choice, Reverse(ExistingFrom(choice, 1)))} :
           choice \in [Chunks -> ChunkChoices]}

\* The paths of the model: "r.mca" and "a".
TransformPaths == {<<114>> \o McaSuffix, <<97>>}

\* The lists the config file may hold, every name known to get_transformer.
TransformerLists ==
    UNION {[1..n -> KnownTransformers] : n \in 0..MaxTransformers}

\* No region file is read and no writer is used.
RegionIdle ==
    /\ rg_input = NoRegion
    /\ rg_output = Result("none", NoRegion)
    /\ rg_writer = RegionWriterNew
    /\ rg_calls = <<>>
    /\ rg_pc = "idle"

\* No file is transformed.
TransformIdle ==
    /\ transformers = <<>>
    /\ tf_path = <<>>
    /\ tf_input = NoRegion
    /\ ingested = Chained(Result("none", NoRegion), <<>>)
    /\ extracted = Chained(Result("none", NoRegion), <<>>)
    /\ tf_pc = "idle"
    /\ RegionIdle

\* The transformers of the config file and a file of the working tree.
TransformInit ==
    /\ RegionIdle
    /\ transformers \in TransformerLists
    /\ tf_path \in TransformPaths
    /\ tf_input \in Regions
    /\ ingested = Chained(Result("none", NoRegion), <<>>)
    /\ extracted = Chained(Result("none", NoRegion), <<>>)
    /\ tf_pc = "input"

\* create_tmp_tar's callback on the file: the transformers are applied and
\* the result becomes the archive entry.
Ingest ==
    /\ tf_pc = "input"
    /\ ingested' = IngestChain(transformers, 1, tf_path, tf_input, <<>>)
    /\ tf_pc' = IF ingested'.result.kind = "ok" THEN "archived" ELSE "failed"
    /\ UNCHANGED <<transformers, tf_path, tf_input, extracted>>
    /\ TransformFrame

\* __debug_restore::main2 on the archive entry: the transformers are applied
\* and the result is written to the restored file.
Extract ==
    /\ tf_pc = "archived"
    /\ extracted' =
           ExtractChain(transformers, 1, tf_path, ingested.result.value, <<>>)
    /\ tf_pc' = "extracted"
    /\ UNCHANGED <<transformers, tf_path, tf_input, ingested>>
    /\ TransformFrame

TransformNext ==
    \/ Ingest
    \/ Extract

\* The payload lengths around a sector boundary: n sectors are filled
\* exactly by n * SECTOR_SIZE - 5 bytes of payload.
LengthsAt(n) == {n * SectorSize - 5, n * SectorSize - 4}

\* The payloads given to add_chunk: buffers that fill one sector, the
\* largest sector count a u8 holds, and one sector more.
WriterPayloads ==
    {ChunkData(len, "bytes") : len \in LengthsAt(1) \cup LengthsAt(U8 - 1)}

\* One add_chunk call that returned.
AddCall(chunk_i, payload) == [chunk_i |-> chunk_i, payload |-> payload]

\* Either a region file is read by __debug_transform, or a writer is made
\* by RegionFileFormatWriter::new.
RegionInit ==
    /\ transformers = <<>>
    /\ tf_path = <<>>
    /\ tf_input = NoRegion
    /\ ingested = Chained(Result("none", NoRegion), <<>>)
    /\ extracted = Chained(Result("none", NoRegion), <<>>)
    /\ tf_pc = "idle"
    /\ rg_output = Result("none", NoRegion)
    /\ rg_writer = RegionWriterNew
    /\ rg_calls = <<>>
    /\ \/ rg_input \in Regions /\ rg_pc = "read"
       \/ rg_input = NoRegion /\ rg_pc = "writer"

\* __debug_transform, lines 67-69: the region file is re-compressed.
DebugTransform ==
    /\ rg_pc = "read"
    /\ rg_output' = TransformRegionFileToCompressed(rg_input, 1, RegionWriterNew)
    /\ rg_pc' = "transformed"
    /\ UNCHANGED <<rg_input, rg_writer, rg_calls>>
    /\ RegionFrame

\* One call of RegionFileFormatWriter::add_chunk.
AddChunkCall(chunk_i, timestamp, compression_scheme, payload) ==
    /\ rg_pc = "writer"
    /\ Len(rg_calls) < MaxAdds
    /\ IF AddChunkPanics(rg_writer, chunk_i)
       THEN /\ rg_pc' = "panicked"
            /\ UNCHANGED <<rg_writer, rg_calls>>
       ELSE /\ rg_writer' = AddChunk(rg_writer, chunk_i, timestamp,
                                     compression_scheme, payload)
            /\ rg_calls' = Append(rg_calls, AddCall(chunk_i, payload))
            /\ rg_pc' = "writer"
    /\ UNCHANGED <<rg_input, rg_output>>
    /\ RegionFrame

\* RegionFileFormatWriter::serialize on the writer.
SerializeCall ==
    /\ rg_pc = "writer"
    /\ rg_output' = Serialize_Region(rg_writer)
    /\ rg_pc' = "serialized"
    /\ UNCHANGED <<rg_input, rg_writer, rg_calls>>
    /\ RegionFrame

RegionNext ==
    \/ DebugTransform
    \/ \E chunk_i \in Chunks, payload \in WriterPayloads :
           AddChunkCall(chunk_i, 10 + chunk_i, 3, payload)
    \/ SerializeCall

(* ====================================================================== *)
(*      Tab separated key/value files (src/tab_separated_key_value.rs)    *)
(* ====================================================================== *)

\* The characters strings are made of: tab, newline, backslash, 'n', 'a'.
TskvChars == {9, 10, 92, 110, 97}

\* The strings of at most n characters.
RECURSIVE StringsUpTo(_)
StringsUpTo(n) ==
    IF n = 0 THEN {<<>>}
    ELSE LET shorter == StringsUpTo(n - 1)
         IN shorter \cup {Append(s, ch) : s \in shorter, ch \in TskvChars}

\* str::replace of a character.
RECURSIVE Replace(_, _, _)
Replace(s, ch, with) ==
    IF s = <<>> THEN <<>>
    ELSE (IF Head(s) = ch THEN with ELSE <<Head(s)>>)
         \o Replace(Tail(s), ch, with)

\* escape_string with the two replacements the other way round.
EscapeString_NewlineFirst(s) ==
    Replace(Replace(s, 10, <<92, 110>>), 92, <<92, 92>>)

\* escape_string.
EscapeString(s) == Replace(Replace(s, 92, <<92, 92>>), 10, <<92, 110>>)

\* unescape_string: the loop over the characters left, s.
RECURSIVE UnescapeFrom(_, _, _)
UnescapeFrom(s, final_str, is_escaped) ==
    IF s = <<>>
    THEN IF is_escaped THEN Result("err", <<>>) ELSE Result("ok", final_str)
    ELSE LET ch == Head(s)
         IN IF is_escaped
            THEN IF ch = 92
                 THEN UnescapeFrom(Tail(s), Append(final_str, ch), FALSE)
                 ELSE IF ch = 110
                 THEN UnescapeFrom(Tail(s), Append(final_str, 10), FALSE)
                 ELSE Result("err", <<>>)
            ELSE IF ch = 92 THEN UnescapeFrom(Tail(s), final_str, TRUE)
            ELSE UnescapeFrom(Tail(s), Append(final_str, ch), FALSE)

\* unescape_string.
UnescapeString(s) == UnescapeFrom(s, <<>>, FALSE)

\* struct Contents.
Contents(single_value, multi_value) ==
    [single_value |-> single_value, multi_value |-> multi_value]

\* The value next to an Err.
NoContents == Contents(EmptyMap, EmptyMap)

\* str::find, 0 for None, else the place of the first ch.
FindChar(s, ch) ==
    IF \E k \in DOMAIN s : s[k] = ch
    THEN CHOOSE k \in DOMAIN s : s[k] = ch /\ \A j \in 1..(k - 1) : s[j] # ch
    ELSE 0

\* The place of the last tab of the line.
FindTab_Last(line) ==
    IF \E k \in DOMAIN line : line[k] = 9
    THEN CHOOSE k \in DOMAIN line :
             line[k] = 9 /\ \A j \in (k + 1)..Len(line) : line[j] # 9
    ELSE 0

\* read_string, line 47: line.find('\t').
FindTab(line) == FindChar(line, 9)

\* str::split.
RECURSIVE Split(_, _)
Split(s, ch) ==
    LET i == FindChar(s, ch)
    IN IF i = 0 THEN <<s>>
       ELSE <<SubSeq(s, 1, i - 1)>> \o Split(SubSeq(s, i + 1, Len(s)), ch)

\* The check for a second value left out.
SingleHasKey_Never(single_value, key) == FALSE

\* read_string, line 56: single_value.contains_key(&key).
SingleHasKey(single_value, key) == key \in DOMAIN single_value

\* read_string: the loop over the lines left.
RECURSIVE ReadLines(_, _, _, _)
ReadLines(multivalue_keys, lines, single_value, multi_value) ==
    IF lines = <<>> THEN Result("ok", Contents(single_value, multi_value))
    ELSE IF Head(lines) = <<>>
    THEN ReadLines(multivalue_keys, Tail(lines), single_value, multi_value)
    ELSE LET line == Head(lines)
             i == FindTab(line)
             key == UnescapeString(SubSeq(line, 1, i - 1))
             val == UnescapeString(SubSeq(line, i + 1, Len(line)))
         IN IF i = 0 THEN Result("err", NoContents)
            ELSE IF key.kind # "ok" \/ val.kind # "ok"
            THEN Result("err", NoContents)
            ELSE IF key.value \in multivalue_keys
            THEN ReadLines(multivalue_keys, Tail(lines), single_value,
                     MapInsert(multi_value, key.value,
                               Append(IF key.value \in DOMAIN multi_value
                                      THEN multi_value[key.value] ELSE <<>>,
                                      val.value)))
            ELSE IF SingleHasKey(single_value, key.value)
            THEN Result("err", NoContents)
            ELSE ReadLines(multivalue_keys, Tail(lines),
                           MapInsert(single_value, key.value, val.value),
                           multi_value)

\* Config::read_string.
ReadString(multivalue_keys, data) ==
    ReadLines(multivalue_keys, Split(data, 10), EmptyMap, EmptyMap)

\* write_string, lines 87-92: the lines of the single values, keys sorted.
RECURSIVE WriteSingles(_, _)
WriteSingles(sorted_singles, single_value) ==
    IF sorted_singles = <<>> THEN <<>>
    ELSE EscapeString(Head(sorted_singles)) \o <<9>>
         \o EscapeString(single_value[Head(sorted_singles)]) \o <<10>>
         \o WriteSingles(Tail(sorted_singles), single_value)

\* write_string, lines 106-111: the lines of one multi-value key.
RECURSIVE WriteValues(_, _)
WriteValues(key_escaped, values) ==
    IF values = <<>> THEN <<>>
    ELSE key_escaped \o <<9>> \o EscapeString(Head(values)) \o <<10>>
         \o WriteValues(key_escaped, Tail(values))

\* The check for a key of both kinds left out.
BothKinds_Never(contents, key) == FALSE

\* write_string, line 98: self.single_value.contains_key(item.0).
BothKinds(contents, key) == key \in DOMAIN contents.single_value

\* write_string, lines 97-112: the loop over the multi-value keys left.
RECURSIVE WriteMultis(_, _, _)
WriteMultis(sorted_multis, contents, result) ==
    IF sorted_multis = <<>>
    THEN Result("ok", IF result = <<>> THEN <<10>> ELSE result)
    ELSE IF BothKinds(contents, Head(sorted_multis))
    THEN Result("err", <<>>)
    ELSE WriteMultis(Tail(sorted_multis), contents,
             result \o WriteValues(EscapeString(Head(sorted_multis)),
                                   contents.multi_value[Head(sorted_multis)]))

\* Contents::write_string.
WriteString(contents) ==
    WriteMultis(SortNames(DOMAIN contents.multi_value), contents,
                WriteSingles(SortNames(DOMAIN contents.single_value),
                             contents.single_value))

\* The keys the files are drawn from: "a", backslash newline, "", "d", ...
TskvKeyOf(i) ==
    IF i = 1 THEN <<97>> ELSE IF i = 2 THEN <<92, 10>>
    ELSE IF i = 3 THEN <<>> ELSE <<96 + i>>

TskvKeys == {TskvKeyOf(i) : i \in 1..MaxKeys}

\* The values the files are drawn from: tab backslash, newline "n", "", ...
TskvValueOf(i) ==
    IF i = 1 THEN <<9, 92>> ELSE IF i = 2 THEN <<10, 110>>
    ELSE IF i = 3 THEN <<>> ELSE <<96 + i>>

TskvValues == {TskvValueOf(i) : i \in 1..MaxValues}

\* What a caller puts into a Contents: a value under a single-value key, one
\* more value under a multi-value key, or a multi-value key with no value.
TskvEntries ==
    {[kind |-> kind, key |-> k, value |-> v] :
        kind \in {"single", "multi"}, k \in TskvKeys, v \in TskvValues}
    \cup {[kind |-> "empty", key |-> k, value |-> <<>>] : k \in TskvKeys}

\* The Contents a caller builds by putting the entries in, one after another.
RECURSIVE WithEntries(_, _)
WithEntries(contents, entries) ==
    IF entries = <<>> THEN contents
    ELSE LET e == Head(entries)
             list == IF e.key \in DOMAIN contents.multi_value
                     THEN contents.multi_value[e.key] ELSE <<>>
         IN WithEntries(
                IF e.kind = "single"
                THEN Contents(MapInsert(contents.single_value, e.key, e.value),
                              contents.multi_value)
                ELSE Contents(contents.single_value,
                              MapInsert(contents.multi_value, e.key,
                                        IF e.kind = "multi"
                                        THEN Append(list, e.value) ELSE list)),
                Tail(entries))

\* The Contents a caller may write: any keys single-valued, any keys
\* multi-valued, a key may be both.
AllContents ==
    {WithEntries(NoContents, entries) :
        entries \in UNION {[1..n -> TskvEntries] : n \in 0..MaxEntries}}

\* The lines a file may have: a key and a value as they are written, an
\* empty line, a line without a tab, a line with a bad escape sequence.
TskvLines ==
    {EscapeString(k) \o <<9>> \o EscapeString(v) :
        k \in TskvKeys, v \in TskvValues}
    \cup {<<>>, <<97>>, <<92, 97, 9>>}

\* The lines of a file joined by newlines.
RECURSIVE JoinLines(_)
JoinLines(lines) ==
    IF lines = <<>> THEN <<>>
    ELSE IF Len(lines) = 1 THEN Head(lines)
    ELSE Head(lines) \o <<10>> \o JoinLines(Tail(lines))

\* The files a caller may read.
AllData == {JoinLines(lines) :
               lines \in UNION {[1..n -> TskvLines] : n \in 0..MaxLines}}

\* No string is escaped, no file read or written.
TskvIdle ==
    /\ tk_contents = NoContents
    /\ tk_config = {}
    /\ tk_data = Result("none", <<>>)
    /\ tk_read = Result("none", NoContents)
    /\ tk_str = <<>>
    /\ tk_escaped = <<>>
    /\ tk_unescaped = Result("none", <<>>)
    /\ tk_pc = "idle"

\* A Contents to write and read back, or a file to read under a Config, or
\* a string to escape and unescape.
TskvInit ==
    /\ tk_read = Result("none", NoContents)
    /\ tk_escaped = <<>>
    /\ tk_unescaped = Result("none", <<>>)
    /\ \/ /\ tk_pc = "write"
          /\ tk_contents \in AllContents
          /\ tk_config = DOMAIN tk_contents.multi_value
          /\ tk_data = Result("none", <<>>)
          /\ tk_str = <<>>
       \/ /\ tk_pc = "read"
          /\ tk_contents = NoContents
          /\ tk_config \in SUBSET TskvKeys
          /\ tk_data \in {Result("ok", data) : data \in AllData}
          /\ tk_str = <<>>
       \/ /\ tk_pc = "escape"
          /\ tk_contents = NoContents
          /\ tk_config = {}
          /\ tk_data = Result("none", <<>>)
          /\ tk_str \in StringsUpTo(MaxStrLen)

\* contents.write_string().
TskvWrite ==
    /\ tk_pc = "write"
    /\ tk_data' = WriteString(tk_contents)
    /\ tk_pc' = IF tk_data'.kind = "ok" THEN "written" ELSE "failed"
    /\ UNCHANGED <<tk_contents, tk_config, tk_read, tk_str, tk_escaped,
                   tk_unescaped>>
    /\ TskvFrame

\* Config { multivalue_keys }.read_string(data), of a file given or of the
\* string just written.
TskvRead ==
    /\ tk_pc \in {"read", "written"}
    /\ tk_read' = ReadString(tk_config, tk_data.value)
    /\ tk_pc' = IF tk_pc = "read" THEN "read_done" ELSE "read_back"
    /\ UNCHANGED <<tk_contents, tk_config, tk_data, tk_str, tk_escaped,
                   tk_unescaped>>
    /\ TskvFrame

\* escape_string(s).
TskvEscape ==
    /\ tk_pc = "escape"
    /\ tk_escaped' = EscapeString(tk_str)
    /\ tk_pc' = "escaped"
    /\ UNCHANGED <<tk_contents, tk_config, tk_data, tk_read, tk_str,
                   tk_unescaped>>
    /\ TskvFrame

\* unescape_string of the escaped string.
TskvUnescape ==
    /\ tk_pc = "escaped"
    /\ tk_unescaped' = UnescapeString(tk_escaped)
    /\ tk_pc' = "unescaped"
    /\ UNCHANGED <<tk_contents, tk_config, tk_data, tk_read, tk_str,
                   tk_escaped>>
    /\ TskvFrame

TskvNext ==
    \/ TskvWrite
    \/ TskvRead
    \/ TskvEscape
    \/ TskvUnescape

(* ====================================================================== *)
(*                          Specifications                                *)
(* ====================================================================== *)

vars == <<pipelineVars, snapshotVars, chainVars, pureVars>>

\* No call of a pure component has been made nor will be.
PureIdle == DeltaIdle /\ WalkIdle /\ TransformIdle /\ TskvIdle

Init == PipelineInit /\ RepoInit /\ PureIdle

\* The pipeline alone.
PipelineSpec == Init /\ [][PipelineNext]_vars

\* The repository commands alone.
SnapshotSpec == Init /\ [][RepoNext]_vars

\* The steps the pipeline takes by itself once the producer has made a call.
\* Every thread is an OS thread that the scheduler keeps running, and
\* process_fn returns: a step that stays possible is taken.
PipelineFairness ==
    /\ WF_vars(WriteDispatch)
    /\ WF_vars(WritePollBlocking)
    /\ WF_vars(PollBlockingReturn)
    /\ WF_vars(FinalizePoll)
    /\ WF_vars(FinalizeJoin)
    /\ \A t \in 1..MaxWorkers : WF_vars(t \in Threads /\ WorkerRecv(t))
    /\ \A t \in 1..MaxWorkers : WF_vars(t \in Threads /\ WorkerSend(t))

\* The pipeline alone, its threads scheduled fairly.
PipelineFairSpec == PipelineSpec /\ PipelineFairness

\* Every pair of archives the delta engine may be given; nothing else runs.
DeltaSpecInit ==
    /\ PipelineInit /\ RepoInit
    /\ DeltaInit /\ WalkIdle /\ TransformIdle /\ TskvIdle

\* The delta engine alone, on every pair of archives.
DeltaSpec == DeltaSpecInit /\ [][DeltaNext]_vars

\* Every working tree; nothing else runs.
WalkSpecInit ==
    /\ PipelineInit /\ RepoInit
    /\ DeltaIdle /\ WalkInit /\ TransformIdle /\ TskvIdle

\* The walker alone, on every working tree.
WalkSpec == WalkSpecInit /\ [][WalkNext]_vars

\* Every transformer list and file; nothing else runs.
TransformSpecInit ==
    /\ PipelineInit /\ RepoInit
    /\ DeltaIdle /\ WalkIdle /\ TransformInit /\ TskvIdle

\* The transformers alone, on every list and file.
TransformSpec == TransformSpecInit /\ [][TransformNext]_vars

\* Every region file and every writer; nothing else runs.
RegionSpecInit ==
    /\ PipelineInit /\ RepoInit
    /\ DeltaIdle /\ WalkIdle /\ RegionInit /\ TskvIdle

\* The region-file reader and writer alone.
RegionSpec == RegionSpecInit /\ [][RegionNext]_vars

\* Every snapshots directory; nothing else runs.
ChainSpecInit == PipelineInit /\ ChainInit /\ PureIdle

\* __debug_restore alone, on every snapshots directory.
ChainSpec == ChainSpecInit /\ [][ChainNext]_vars

\* Every Contents, file and string; nothing else runs.
TskvSpecInit ==
    /\ PipelineInit /\ RepoInit
    /\ DeltaIdle /\ WalkIdle /\ TransformIdle /\ TskvInit

\* The key/value codec alone.
TskvSpec == TskvSpecInit /\ [][TskvNext]_vars

\* Every source archive and delta list file; nothing else runs.
ApplySpecInit ==
    /\ PipelineInit /\ RepoInit
    /\ ApplyInit /\ WalkIdle /\ TransformIdle /\ TskvIdle

\* A delta list file, changed or not, is opened and applied.
ApplySpec == ApplySpecInit /\ [][ApplyNext]_vars

(* ====================================================================== *)
(*                     Properties of the pipeline                         *)
(* ====================================================================== *)

\* The threads marked as not working.
IdleThreads(working) == {t \in DOMAIN working : ~working[t]}

\* The outputs the buffer holds.
BufferedOutputs == {k \in DOMAIN buffer : buffer[k] # None}

\* C1: the sink callback is called on the outputs in the order in which their
\* inputs were written: its j-th call is on the output of the j-th input. A
\* completion that arrived before one of its predecessors is held in the
\* buffer, at the place of its index, behind the None of the predecessor.
C1_SinkInInputOrder ==
    /\ \A j \in DOMAIN sink_log : sink_log[j] = ProcessFn(InputOf(j - 1))
    /\ offset = Len(sink_log)
    /\ \A k \in BufferedOutputs :
           /\ buffer[k].some = ProcessFn(InputOf(offset + k - 1))
           /\ buffer[1] = None

\* Two outputs were delivered, and a completion is held back behind a
\* predecessor that has not arrived.
C1_Witness ==
    /\ Len(sink_log) >= 2
    /\ Len(buffer) >= 2
    /\ buffer[1] = None
    /\ buffer[2] # None

\* The number of sink calls made on the output of the input of index i.
SinkCalls(i) ==
    Cardinality({j \in DOMAIN sink_log : sink_log[j] = ProcessFn(InputOf(i))})

\* C2: when finalize() returns, the sink callback has been called exactly once
\* for every input that was written.
C2_ExactlyOncePerInput ==
    pc = "done" =>
        /\ Len(sink_log) = next_input_index
        /\ \A i \in 0..(next_input_index - 1) : SinkCalls(i) = 1

\* finalize() returned with two workers and at least three inputs written.
C2_Witness ==
    /\ pc = "done"
    /\ Len(is_working) >= 2
    /\ next_input_index >= 3

\* C3: under fair scheduling finalize() eventually returns, and a write() that
\* waits on the output channel eventually returns.
C3_FinalizeReturns ==
    /\ (pc = "finalize") ~> (pc = "done")
    /\ (pc = "write") ~> (pc = "idle")

\* finalize() returned: every worker got its Terminate and left its loop.
C3_Witness ==
    /\ pc = "done"
    /\ number_inputs >= 1
    /\ \A t \in Threads : wstate[t].at = "exited" /\ input_channel[t] = <<>>

\* A step of the producer: no worker moved.
ProducerStep == wstate' = wstate /\ pipelineVars' # pipelineVars

\* The threads that wait for an input, none being on its way to them.
ReallyIdle ==
    {t \in Threads : wstate[t].at = "recv" /\ input_channel[t] = <<>>}

\* C4: in write(), with a thread not working the input is sent to such a thread
\* and nothing is taken from the output channel; with every thread working the
\* only step is to take a tuple from the output channel, which leaves the
\* thread of that tuple as the only one not working, and the input is then
\* sent to it. A write() never waits while some thread has nothing to do: that
\* thread is not marked as working, or its tuple is in the output channel.
C4_WriteBlocksOnlyWhenAllBusy ==
    /\ [][(pc = "write" /\ ProducerStep) =>
          IF IdleThreads(is_working) # {}
          THEN /\ pc' = "idle"
               /\ output_channel' = output_channel
               /\ \E t \in IdleThreads(is_working) :
                      /\ is_working' = [is_working EXCEPT ![t] = TRUE]
                      /\ input_channel' =
                             [input_channel EXCEPT
                                 ![t] = Append(@, Data(cur_input.input,
                                                      cur_input.index))]
                      /\ write_polls > 0 => IdleThreads(is_working) = {t}
          ELSE /\ output_channel # <<>>
               /\ output_channel' = Tail(output_channel)
               /\ input_channel' = input_channel
               /\ pc' = "write"
               /\ IdleThreads(is_working') = {Head(output_channel).thread_index}
      ]_vars
    /\ [](pc = "write" /\ ReallyIdle # {} =>
              IdleThreads(is_working) # {} \/ output_channel # <<>>)

\* A write() that found every thread working has waited for a completion and
\* returned, every thread working again.
C4_Witness ==
    /\ pc = "idle"
    /\ write_polls > 0
    /\ Len(is_working) >= 2
    /\ IdleThreads(is_working) = {}

\* C5: the buffer holds at most 2N outputs, N the number of workers.
C5_BufferBounded ==
    Cardinality(BufferedOutputs) <= 2 * Len(is_working)

(* ====================================================================== *)
(*                    Properties of the repository                        *)
(* ====================================================================== *)

\* The snapshots that have a meta file.
Snapshots == {i \in Ids : metas[i] # NoMetaFile}

\* The meta of a snapshot, read from its file.
Meta(i) == MetaRead(i, metas[i])

\* The elements of a Vec.
Range(seq) == {seq[k] : k \in DOMAIN seq}

\* The snapshots whose meta has full_type != None.
FullSnapshots == {i \in Snapshots : Meta(i).full_type # "None"}

\* C6: after successful snapshots exactly one snapshot has full_type != None,
\* the one the head names.
C6_OneFullSnapshot ==
    (spc = "rest" /\ ~interrupted /\ Snapshots # {}) =>
        FullSnapshots = {head.curr_snapshot_id}

\* Two snapshots were taken, none interrupted.
C6_Witness ==
    /\ spc = "rest"
    /\ ~interrupted
    /\ last_result = "ok"
    /\ Cardinality(Snapshots) >= 2

\* branches[head.branch] = head.snapshotid, when head.snapshotid is set.
HeadAndBranchesAgree ==
    head.curr_snapshot_id # NoId =>
        /\ head.curr_branch \in DOMAIN branches
        /\ branches[head.curr_branch] = head.curr_snapshot_id

\* C7: at rest after init and after each successful snapshot,
\* branches[head.branch] = head.snapshotid whenever head.snapshotid is set.
C7_BranchFollowsHead ==
    (spc = "rest" /\ last_result \in {"init", "ok"}) => HeadAndBranchesAgree

\* A second snapshot succeeded and moved the branch.
C7_Witness ==
    /\ spc = "rest"
    /\ last_result = "ok"
    /\ head.curr_snapshot_id # NoId
    /\ Meta(head.curr_snapshot_id).parents # <<>>

\* Following diff_children from snapshot i, in at most n steps, a snapshot with
\* its full payload is reached, the delta file of every step existing.
RECURSIVE ChainToFull(_, _)
ChainToFull(i, n) ==
    /\ i \in Snapshots
    /\ IF Meta(i).full_type # "None"
       THEN payloads[FullPayloadFilename(Meta(i))] # NoFile
       ELSE /\ n > 0
            /\ \E d \in Range(Meta(i).diff_children) :
                   /\ DiffPath(Meta(i), d) \in diffs
                   /\ ChainToFull(d, n - 1)

\* C8: after a successful snapshot every snapshot with full_type = None has a
\* chain along diff_children to the snapshot with the full payload, every delta
\* file of the chain on disk.
C8_ChainsToFull ==
    (spc = "rest" /\ last_result = "ok" /\ ~interrupted) =>
        \A i \in Snapshots : ChainToFull(i, MaxIds)

\* Every child edge has its parent edge, every dchild edge its dparent edge.
EdgesHaveInverse ==
    \A x \in Snapshots :
        /\ \A y \in Range(Meta(x).children) :
               y \in Snapshots /\ x \in Range(Meta(y).parents)
        /\ \A y \in Range(Meta(x).diff_children) :
               y \in Snapshots /\ x \in Range(Meta(y).diff_parents)

\* Snapshot i can be rebuilt from a full payload on disk through delta files
\* on disk, in at most n steps.
RECURSIVE Reconstructible(_, _)
Reconstructible(i, n) ==
    /\ i \in Snapshots
    /\ \/ \E name \in PayloadNames : name[1] = i /\ payloads[name] # NoFile
       \/ /\ n > 0
          /\ \E d \in Range(Meta(i).diff_children) :
                 /\ DiffPath(Meta(i), d) \in diffs
                 /\ Reconstructible(d, n - 1)

\* C9: the repository an interrupted snapshot leaves has a consistent graph,
\* head and branches that agree, and every snapshot reconstructible.
C9_InterruptedIsConsistent ==
    (spc = "rest" /\ last_result = "interrupted") =>
        /\ EdgesHaveInverse
        /\ HeadAndBranchesAgree
        /\ \A i \in Snapshots : Reconstructible(i, MaxIds)

\* C10: a snapshot whose id has a meta file ends in an error; a meta file that
\* exists is rewritten only as the previous snapshot of the run, never as its
\* new one, and a full payload that exists is never written over.
C10_NoCollisionOverwrite ==
    [][/\ (spc = "check_collision" /\ metas[staged.id] # NoMetaFile
              /\ spc' # spc) =>
             (spc' = "rest" /\ last_result' \in {"error", "interrupted"})
       /\ (spc' \in {"create_xdelta", "write_staged"} /\ spc' # spc) =>
             metas[staged'.id] = NoMetaFile
       /\ \A i \in Ids :
              (metas[i] # NoMetaFile /\ metas'[i] # metas[i]) =>
                  (i # staged.id /\ i = curr.id)
       /\ \A n \in PayloadNames :
              payloads[n] # NoFile => payloads'[n] \in {payloads[n], NoFile}
      ]_vars

\* A snapshot computed the id of an older snapshot and ended in an error: the
\* payload it moved into place lies beside the meta it collided with.
C10_Witness ==
    /\ spc = "rest"
    /\ ~interrupted
    /\ last_result = "error"
    /\ \E i \in Snapshots :
           /\ Meta(i).full_type = "None"
           /\ payloads[<<i, "tar">>] = ops

(* ---------------------------------------------------------------------- *)
(* C11  round trip of the delta list                                      *)
(* ---------------------------------------------------------------------- *)

\* The paths of an archive's entries.
PathsOf(archive) == {archive[k].path : k \in DOMAIN archive}

\* C11: for two archives in strictly ascending path order and a diff
\* primitive that yields a patch for every pair of buffers, with
\* decode(encode(t, s), s) = t, restoring start_tar with the delta list
\* generated from (start_tar, end_tar) succeeds and writes exactly end_tar's
\* entries: the same paths in the same order, each with end_tar's payload.
C11_RestoreYieldsEnd ==
    (dl_pc = "restored" /\ no_patch = {})
        => (restored.kind = "ok" /\ restored.entries = end_tar)

\* A restore that applied a Modified, a Deleted and an Added record.
C11_Witness ==
    /\ dl_pc = "restored"
    /\ no_patch = {}
    /\ restored.entries = end_tar
    /\ \E i \in DOMAIN start_tar, j \in DOMAIN end_tar :
           start_tar[i].path = end_tar[j].path /\ start_tar[i].data # end_tar[j].data
    /\ PathsOf(start_tar) \ PathsOf(end_tar) # {}
    /\ PathsOf(end_tar) \ PathsOf(start_tar) # {}

(* ---------------------------------------------------------------------- *)
(* C12, C13, C15  restore                                                 *)
(* ---------------------------------------------------------------------- *)

\* The last command was __debug_restore, asked for snapshot i.
RestoreAsked(i) == spc = "rest" /\ restore_out.target = i

\* C12: after successful snapshots, restore of a snapshot with a
\* diff_children chain to the full snapshot succeeds and yields the archive
\* written when that snapshot was taken.
C12_RestoreYieldsArchive ==
    \A i \in Ids :
        (RestoreAsked(i) /\ ~interrupted /\ ChainToFull(i, MaxIds)) =>
            /\ restore_out.result = "ok"
            /\ restore_out.printed = "Restored to"
            /\ restore_out.archive = taken[i]

\* Following the first diff_child from snapshot i, in at most n steps, a
\* snapshot with full_type != None is reached.
RECURSIVE WalkReachesFull(_, _)
WalkReachesFull(i, n) ==
    /\ i \in Snapshots
    /\ \/ Meta(i).full_type # "None"
       \/ /\ n > 0
          /\ Meta(i).diff_children # <<>>
          /\ WalkReachesFull(Head(Meta(i).diff_children), n - 1)

\* C13: in a repository with snapshots, restore of a target from which the
\* walk along the first diff_child reaches no full snapshot (the target has
\* no meta, too) returns an error reporting "Path not found to {id}".
C13_RestoreFailsWithoutPath ==
    \A i \in Ids :
        (RestoreAsked(i) /\ Snapshots # {} /\ ~WalkReachesFull(i, MaxIds)) =>
            /\ restore_out.result = "err"
            /\ restore_out.printed = "Path not found to"

\* C15: every snapshot the snapshot command commits is recorded with
\* full_type = TarGz, its payload stored as {id}-full.tar.gz, and restore
\* accepts it as the full payload.
C15_CommittedAsTarGz ==
    /\ \A i \in FullSnapshots :
           (spc = "rest" /\ last_result = "ok") =>
               /\ Meta(i).full_type = "TarGz"
               /\ payloads[<<i, "tar.gz">>] # NoFile
    /\ \A i \in FullSnapshots :
           (RestoreAsked(i) /\ ~interrupted) => restore_out.result = "ok"

(* ---------------------------------------------------------------------- *)
(* C14  order of the walker                                               *)
(* ---------------------------------------------------------------------- *)

\* The byte strings of a sequence are in strictly ascending order.
StrictlyAscending(paths) ==
    \A k \in 1..(Len(paths) - 1) : BytesLess(paths[k], paths[k + 1])

\* C14: for every working tree the walker emits the file paths in strictly
\* ascending byte order of the full path, and the archive lists its entries
\* in that order (a tree with a/x and b is archived as a/x, then b).
C14_WalkerAscending ==
    walk_pc = "done" => StrictlyAscending(emitted) /\ StrictlyAscending(archived)

(* ---------------------------------------------------------------------- *)
(* C16, C17  transformers                                                 *)
(* ---------------------------------------------------------------------- *)

\* C16: for the transformer T, every path p and every contents b that
\* transform_in accepts, T.transform_out(p, T.transform_in(p, b)) = b: with
\* T alone in the list, the restored file equals the file ingested.
C16_TransformRoundTrip ==
    (tf_pc = "extracted" /\ Len(transformers) = 1) =>
        /\ extracted.result.kind = "ok"
        /\ extracted.result.value = tf_input

\* C17: ingestion calls transform_in in list order, extraction calls
\* transform_out in the reverse order.
C17_ExtractionReversesIngestion ==
    tf_pc = "extracted" =>
        /\ ingested.log = [k \in 1..Len(transformers) |-> k]
        /\ extracted.result.kind = "ok" => extracted.log = Reverse(ingested.log)

\* A Contents was written and the string read back under its multi-value keys.
ReadBack == tk_pc \in {"read_back", "failed"}

\* The single-value and the multi-value keys of the Contents are disjoint.
Partitioned ==
    DOMAIN tk_contents.single_value \cap DOMAIN tk_contents.multi_value = {}

\* The string was written and read back and the Contents read is the one
\* written.
ReadIsWritten ==
    /\ tk_pc = "read_back"
    /\ tk_read.kind = "ok"
    /\ DOMAIN tk_read.value.single_value = DOMAIN tk_contents.single_value
    /\ DOMAIN tk_read.value.multi_value = DOMAIN tk_contents.multi_value
    /\ \A k \in DOMAIN tk_contents.single_value :
           tk_read.value.single_value[k] = tk_contents.single_value[k]
    /\ \A k \in DOMAIN tk_contents.multi_value :
           tk_read.value.multi_value[k] = tk_contents.multi_value[k]

\* C18 as stated: for every Contents whose single-value and multi-value key
\* sets are disjoint, read_string configured with its multi-value keys and
\* applied to write_string of it returns a Contents equal to it.
C18_ReadOfWrite == (ReadBack /\ Partitioned) => ReadIsWritten

\* C18, amended: for every Contents whose single-value and multi-value key
\* sets are disjoint and whose multi-value keys all have at least one value,
\* read_string configured with its multi-value keys and applied to
\* write_string of it returns a Contents equal to it.
C18_ReadOfWriteNonEmpty ==
    (/\ ReadBack
     /\ Partitioned
     /\ \A k \in DOMAIN tk_contents.multi_value :
            tk_contents.multi_value[k] # <<>>)
    => ReadIsWritten

\* A Contents with a single-value key and a multi-value key of two values,
\* with a backslash and a newline in a key and a tab, a backslash and a
\* newline in the values, came back as written.
C18_Witness ==
    /\ ReadIsWritten
    /\ DOMAIN tk_contents.single_value = {<<97>>}
    /\ tk_contents.single_value[<<97>>] = <<9, 92>>
    /\ DOMAIN tk_contents.multi_value = {<<92, 10>>}
    /\ tk_contents.multi_value[<<92, 10>>] = <<(<<10, 110>>), (<<9, 92>>)>>

\* The lines of the file that was read.
FileLines == Split(tk_data.value, 10)

\* The key of line i of the file, where the line has one.
LineKey(i) == UnescapeString(SubSeq(FileLines[i], 1, FindTab(FileLines[i]) - 1))

\* The value of line i of the file, where the line has one.
LineValue(i) ==
    UnescapeString(SubSeq(FileLines[i], FindTab(FileLines[i]) + 1,
                          Len(FileLines[i])))

\* Line i of the file has key k.
HasKey(i, k) ==
    /\ FileLines[i] # <<>>
    /\ FindTab(FileLines[i]) # 0
    /\ LineKey(i).kind = "ok"
    /\ LineKey(i).value = k

\* Key k occurs on more than one line of the file.
Repeated(k) ==
    \E i, j \in DOMAIN FileLines : i < j /\ HasKey(i, k) /\ HasKey(j, k)

\* Every line of the file is empty or a key, a tab and a value with valid
\* escapes.
WellFormed ==
    \A i \in DOMAIN FileLines :
        \/ FileLines[i] = <<>>
        \/ /\ FindTab(FileLines[i]) # 0
           /\ LineKey(i).kind = "ok"
           /\ LineValue(i).kind = "ok"

\* The values of the lines from line i on that have key k, in line order.
RECURSIVE ValuesFrom(_, _)
ValuesFrom(i, k) ==
    IF i > Len(FileLines) THEN <<>>
    ELSE (IF HasKey(i, k) THEN <<LineValue(i).value>> ELSE <<>>)
         \o ValuesFrom(i + 1, k)

\* C19: read_string fails whenever a key that is not configured as
\* multi-value occurs on more than one line; where no such key is repeated
\* and every line is well formed it succeeds, however often the multi-value
\* keys are repeated, and each multi-value key has the values of its lines
\* in line order.
C19_DuplicateSingleFails ==
    tk_pc = "read_done" =>
        /\ (\E k \in TskvKeys \ tk_config : Repeated(k)) => tk_read.kind = "err"
        /\ (WellFormed /\ \A k \in TskvKeys \ tk_config : ~Repeated(k)) =>
               /\ tk_read.kind = "ok"
               /\ DOMAIN tk_read.value.multi_value =
                      {k \in tk_config : ValuesFrom(1, k) # <<>>}
               /\ \A k \in DOMAIN tk_read.value.multi_value :
                      tk_read.value.multi_value[k] = ValuesFrom(1, k)

\* A well formed file of three lines whose first and last line have the same
\* key, not configured as multi-value, with a line of a multi-value key
\* between them, was read and the read failed.
C19_Witness ==
    /\ tk_pc = "read_done"
    /\ WellFormed
    /\ Len(FileLines) = 3
    /\ tk_config = {<<92, 10>>}
    /\ HasKey(1, <<97>>) /\ HasKey(2, <<92, 10>>) /\ HasKey(3, <<97>>)
    /\ LineValue(1).value # LineValue(3).value
    /\ tk_read.kind = "err"

\* The string s with each backslash rewritten to two backslashes, each
\* newline to backslash-n and every other character kept.
RECURSIVE EachRewritten(_)
EachRewritten(s) ==
    IF s = <<>> THEN <<>>
    ELSE (IF Head(s) = 92 THEN <<92, 92>>
          ELSE IF Head(s) = 10 THEN <<92, 110>>
          ELSE <<Head(s)>>)
         \o EachRewritten(Tail(s))

\* C20: unescape_string(escape_string(s)) succeeds and equals s, where
\* escape_string rewrites each backslash to two backslashes and each newline
\* to backslash-n and leaves the other characters, tabs among them, as they
\* are.
C20_UnescapeOfEscape ==
    /\ tk_pc \in {"escaped", "unescaped"} =>
           /\ tk_escaped = EachRewritten(tk_str)
           /\ \A i \in DOMAIN tk_escaped : tk_escaped[i] # 10
    /\ tk_pc = "unescaped" =>
           /\ tk_unescaped.kind = "ok"
           /\ tk_unescaped.value = tk_str

\* The string backslash, "n", newline was escaped to backslash, backslash,
\* "n", backslash, "n" and unescaped to itself.
C20_Witness ==
    /\ tk_pc = "unescaped"
    /\ tk_str = <<92, 110, 10>>
    /\ tk_escaped = <<92, 92, 110, 92, 110>>
    /\ tk_unescaped = Result("ok", tk_str)

\* C21: write_string fails, returning an error and no string, whenever some
\* key is in both single_value and multi_value of the Contents written.
C21_WriteFailsOnOverlap ==
    (tk_pc \in {"written", "failed", "read_back"} /\ ~Partitioned)
    => (tk_pc = "failed" /\ tk_data = Result("err", <<>>))

\* A Contents with the key "a" both single-valued and multi-valued, and
\* another key single-valued only, was written and the write failed.
C21_Witness ==
    /\ tk_pc = "failed"
    /\ tk_data.kind = "err"
    /\ DOMAIN tk_contents.single_value = {<<97>>, <<92, 10>>}
    /\ DOMAIN tk_contents.multi_value = {<<97>>}

\* C22: init fails when the repository directory already exists, and then
\* leaves the branches, the head, the config and the snapshots (metas,
\* payloads, diffs) as they were.
C22_InitFailsOnExisting ==
    [][\A transformer \in TransformerArgs :
          (repo_exists /\ InitRepo(transformer)) =>
              /\ last_result' = "error"
              /\ UNCHANGED <<repo_exists, head, branches, config, metas,
                             payloads, diffs, tmp>>]_vars

\* init was run in a repository that has a snapshot and failed: one snapshot
\* command was started and ran to the end (the head names its snapshot, the
\* branch main too), and the command that ended last returned an error, which
\* a snapshot command does not do once it has written the head.
C22_Witness ==
    /\ spc = "rest"
    /\ ops = 1
    /\ ~interrupted
    /\ last_result = "error"
    /\ head.curr_snapshot_id # NoId
    /\ "main" \in DOMAIN branches
    /\ branches["main"] = head.curr_snapshot_id
    /\ MetaExists(head.curr_snapshot_id)

\* C23: opening a delta list fails with an error and yields no reader, so
\* that nothing is restored, whenever the stream is shorter than the 6-byte
\* header or its first six bytes differ from 'D', 'L', 0, 0, 0, 1 in any
\* position.
C23_BadHeaderRejected ==
    (/\ dl_pc \in {"generated", "restored"}
     /\ \/ Len(delta_list) < 6
        \/ \E k \in 1..6 : delta_list[k] # <<68, 76, 0, 0, 0, 1>>[k])
    => /\ ReaderNew(delta_list).kind = "err"
       /\ dl_pc = "restored" => restored = Restored("err", <<>>)

\* A file whose last version byte was changed, with a record in it and a
\* source archive with an entry, was opened: the open failed and nothing was
\* restored.
C23_Witness ==
    /\ dl_pc = "restored"
    /\ dl_flip = Flip("version", 6)
    /\ SubSeq(delta_list, 1, 5) = <<68, 76, 0, 0, 0>>
    /\ dl_records # <<>>
    /\ start_tar # <<>>
    /\ restored = Restored("err", <<>>)

\* C24: a delta list written by the writer in which one byte of the magic,
\* of the version or of a record's op tag was changed is never accepted
\* when it is read and applied: restore_from_delta_list does not return Ok.
C24_FlippedByteRejected ==
    (dl_pc = "restored" /\ dl_flip.kind \in {"magic", "version", "tag"})
    => restored.kind # "ok"

\* Some record of the list is Added for a path the source archive has, or
\* Modified or Deleted for a path it does not have.
Conflict ==
    \E k \in DOMAIN dl_records :
        (dl_records[k].op = "Added")
        <=> (\E j \in DOMAIN start_tar : start_tar[j].path = dl_records[k].path)

\* The file is as written, every entry of the source archive can be read,
\* and the list has been applied.
Applied == dl_pc = "restored" /\ dl_flip = NoFlip /\ start_fails = 0

\* C25 as stated: applying a delta list fails whenever a record is Added for
\* a path present in the source archive, or Modified or Deleted for a path
\* absent from it; in no such case does apply return success.
C25_ConflictFails == (Applied /\ Conflict) => restored.kind = "err"

\* C25, amended: for a delta list whose records are in strictly ascending
\* path order, applied to a source archive whose entries are in strictly
\* ascending path order, apply fails whenever a record is Added for a path
\* present in the source archive, or Modified or Deleted for a path absent
\* from it.
C25_ConflictFailsAscending ==
    (Applied /\ RecordsAscending(dl_records) /\ Conflict)
    => restored.kind = "err"

\* A list of two records in ascending order, the first applicable and the
\* second a Deleted for a path the source archive does not have, was applied
\* to an archive that still had an entry to read, and apply failed.
C25_Witness ==
    /\ Applied
    /\ Len(dl_records) = 2
    /\ RecordsAscending(dl_records)
    /\ dl_records[1].op = "Modified"
    /\ dl_records[2].op = "Deleted"
    /\ Len(start_tar) = 1
    /\ start_tar[1].path = dl_records[1].path
    /\ restored.kind = "err"

\* C26: restore_from_delta_list returns an error whenever reading an entry
\* of the source archive fails; it does not return success after writing an
\* archive without the remaining entries and records.
C26_EntryErrorFails ==
    (dl_pc = "restored" /\ start_fails # 0) => restored.kind = "err"

\* C27: for archives whose entries are in strictly ascending path order,
\* generate_delta_list writes its records in strictly ascending path order,
\* so at most one per path, and the records cover exactly the paths that
\* are in only one archive or in both with a patch returned by encode.
C27_RecordsAscendingAndExact ==
    dl_pc \in {"generated", "restored"} =>
        /\ RecordsAscending(dl_records)
        /\ {dl_records[k].path : k \in DOMAIN dl_records} =
               (PathsOf(start_tar) \ PathsOf(end_tar))
               \cup (PathsOf(end_tar) \ PathsOf(start_tar))
               \cup {p \in PathsOf(start_tar) \cap PathsOf(end_tar) :
                        <<DataAt(end_tar, p), DataAt(start_tar, p)>>
                            \notin no_patch}

\* Three records were written: a path only in the start archive, a path in
\* both with a patch, though the two files are equal, and a path only in the
\* end archive.
C27_Witness ==
    /\ dl_pc = "generated"
    /\ Len(dl_records) = 3
    /\ dl_records[1].op = "Deleted"
    /\ dl_records[2].op = "Modified"
    /\ DataAt(start_tar, dl_records[2].path) = DataAt(end_tar, dl_records[2].path)
    /\ dl_records[3].op = "Added"

\* This step moves the temporary archive into a payload file.
PayloadMoved == \E n \in PayloadNames : payloads[n] = NoFile /\ payloads'[n] # NoFile

\* This step deletes a payload file.
PayloadDeleted == \E n \in PayloadNames : payloads[n] # NoFile /\ payloads'[n] = NoFile

\* The head and the branches name the snapshot being taken.
HeadUpdated ==
    /\ head.curr_snapshot_id = staged.id
    /\ head.curr_branch \in DOMAIN branches
    /\ branches[head.curr_branch] = staged.id

\* The meta of the snapshot being taken is written, and the meta of its
\* predecessor names it as a child.
MetasWritten ==
    /\ MetaExists(staged.id)
    /\ MetaExists(head.curr_snapshot_id)
    /\ \E k \in DOMAIN metas[head.curr_snapshot_id].child :
           metas[head.curr_snapshot_id].child[k] = staged.id

IdsIn(list) == {list[k] : k \in DOMAIN list}

\* Following the first diff child from snapshot i reaches the head without
\* coming to a snapshot of seen or to one that has no meta.
RECURSIVE ReachesHead(_, _)
ReachesHead(i, seen) ==
    IF i = head.curr_snapshot_id THEN TRUE
    ELSE IF metas[i].dchild = <<>> THEN FALSE
    ELSE LET next == metas[i].dchild[1]
         IN /\ next \notin seen
            /\ MetaExists(next)
            /\ ReachesHead(next, seen \cup {next})

\* C30: after any sequence of snapshot commands that ran to their end (none
\* interrupted), X is a child of Y iff Y is a parent of X, X is a diff child
\* of Y iff Y is a diff parent of X, every snapshot has at most one diff
\* child, and following the diff children from any snapshot reaches the head
\* without revisiting a snapshot.
C30_EdgesInverseAndLinear ==
    (spc = "rest" /\ ~interrupted) =>
        LET snapshots == {i \in Ids : MetaExists(i)}
        IN /\ \A x \in snapshots, y \in snapshots :
                  /\ x \in IdsIn(metas[y].child) <=> y \in IdsIn(metas[x].parent)
                  /\ x \in IdsIn(metas[y].dchild) <=> y \in IdsIn(metas[x].dparent)
           /\ \A x \in snapshots :
                  /\ IdsIn(metas[x].child) \cup IdsIn(metas[x].parent)
                        \cup IdsIn(metas[x].dchild) \cup IdsIn(metas[x].dparent)
                        \subseteq snapshots
                  /\ Len(metas[x].dchild) <= 1
                  /\ ReachesHead(x, {x})

\* Three snapshots were taken, none was interrupted, and the first reaches
\* the head over the second.
C30_Witness ==
    /\ spc = "rest"
    /\ ~interrupted
    /\ \E i, j, k \in Ids :
           /\ head.curr_snapshot_id = k
           /\ MetaExists(i) /\ MetaExists(j) /\ MetaExists(k)
           /\ metas[i].dchild = <<j>> /\ metas[j].dchild = <<k>>
           /\ metas[k].dchild = <<>> /\ metas[k].dparent = <<j>>
           /\ metas[j].dparent = <<i>> /\ metas[i].dparent = <<>>

(* ---------------------------------------------------------------------- *)
(* C31, C32, C40  region files                                            *)
(* ---------------------------------------------------------------------- *)

\* The chunk indexes a writer holds a chunk for.
Added == {rg_calls[k].chunk_i : k \in DOMAIN rg_calls}

\* C31: the writer refuses out-of-order additions: in every sequence of
\* add_chunk calls that returned, the chunk indexes are ascending, and the
\* sector offsets increase with the chunk index.
C31_WriterRefusesOutOfOrder ==
    /\ \A k, l \in DOMAIN rg_calls :
           k < l => rg_calls[k].chunk_i <= rg_calls[l].chunk_i
    /\ \A i, j \in Added :
           i < j => rg_writer.chunks[i].offset < rg_writer.chunks[j].offset

\* The chunk i of a region file, uncompressed.
Uncompressed(region, i) ==
    ReadChunkUncompressed(region, GetChunkI(region, i))

\* C32: for every region file, with any subset of its chunks existing, the
\* re-compressing transform succeeds; the chunks of the output are those of
\* the input, each with compression scheme 2, the same decompressed payload
\* and the same timestamp, and absent chunks stay absent.
C32_RecompressKeepsChunks ==
    rg_pc = "transformed" =>
        /\ rg_output.kind = "ok"
        /\ \A i \in Chunks :
               LET in_desc == GetChunkI(rg_input, i)
                   out_desc == GetChunkI(rg_output.value, i)
               IN /\ IsExists(out_desc) <=> IsExists(in_desc)
                  /\ IsExists(in_desc) =>
                         /\ rg_output.value.sectors[out_desc.offset - 1].scheme = 2
                         /\ Uncompressed(rg_output.value, i)
                                = Uncompressed(rg_input, i)
                         /\ out_desc.timestamp = in_desc.timestamp

\* The last add_chunk call for chunk i.
LastCall(i) ==
    rg_calls[CHOOSE k \in DOMAIN rg_calls :
                 /\ rg_calls[k].chunk_i = i
                 /\ \A l \in DOMAIN rg_calls : rg_calls[l].chunk_i = i => l <= k]

\* C40: for every chunk added, the sector count of the location header is
\* the number of 4096-byte sectors the record of payload length + 5 bytes
\* occupies, and it is not zero, payloads of more than 255 sectors included.
C40_SectorCountExact ==
    \A i \in Added :
        LET count == rg_writer.chunks[i].sector_count
            size == DataLen(LastCall(i).payload) + 5
        IN /\ count # 0
           /\ (count - 1) * SectorSize < size
           /\ size <= count * SectorSize

(* ---------------------------------------------------------------------- *)
(* C33, C36  __debug_restore on any snapshots directory                   *)
(* ---------------------------------------------------------------------- *)

\* The number of delta steps from snapshot i, along the first diff child, to
\* the first snapshot with a full payload.
RECURSIVE DeltaSteps(_)
DeltaSteps(i) ==
    IF Meta(i).full_type # "None" THEN 0
    ELSE 1 + DeltaSteps(Head(Meta(i).diff_children))

\* The snapshots whose temporary archive the last restore created.
CreatedBy(log) ==
    {i \in Ids : \E k \in DOMAIN log : log[k] = <<"create", TmpRestoredPath(i)>>}

\* C33: a successful restore of a target k delta steps away from the full
\* snapshot changes no file under snapshots/, removes every intermediate
\* tmp-restored archive it created, and of the archives it created leaves
\* the target's alone when k >= 1; it creates none when k = 0.
C33_RestoreKeepsSnapshots ==
    [][(restore_out'.result = "ok" /\ restore_out'.printed = "Restored to") =>
           LET target == restore_out'.target
               created == CreatedBy(restore_log')
           IN /\ UNCHANGED <<metas, payloads, diffs, delta_lists>>
              /\ Cardinality(created) = DeltaSteps(target)
              /\ IF DeltaSteps(target) = 0
                 THEN tmp_restored' = tmp_restored
                 ELSE tmp_restored' = (tmp_restored \ created) \cup {target}]_vars

\* A target two delta steps away from the full snapshot was restored: one
\* intermediate archive was created and removed.
C33_Witness ==
    /\ restore_out.result = "ok"
    /\ restore_out.printed = "Restored to"
    /\ DeltaSteps(restore_out.target) = 2
    /\ \E k \in DOMAIN restore_log : restore_log[k][1] = "remove"
    /\ tmp_restored = {restore_out.target}

\* The ids of the snapshots of the path, in the order of the visits.
Visited == [k \in DOMAIN restore_walk.path |-> restore_walk.path[k].id]

\* C36: the chain walk of restore ends for every set of meta files, cycles
\* of diff children and diff children without a meta included: no snapshot
\* is visited twice, the path has at most as many elements as there are
\* metas, and the walk ends at the first full snapshot or finds no path.
C36_WalkVisitsOnce ==
    restore_out.target # NoId =>
        /\ \A k, l \in DOMAIN Visited : k # l => Visited[k] # Visited[l]
        /\ Len(Visited) <= Cardinality(Snapshots)
        /\ \A k \in DOMAIN Visited :
               /\ Visited[k] \in Snapshots
               /\ restore_walk.path[k] = Meta(Visited[k])
               /\ k > 1 => Visited[k] = Head(Meta(Visited[k - 1]).diff_children)
               /\ Meta(Visited[k]).full_type # "None" <=>
                      (restore_walk.path_found /\ k = Len(Visited))
        /\ Visited # <<>> => Visited[1] = restore_out.target

\* The walk went round a cycle of two snapshots and found no path.
C36_Witness ==
    /\ restore_out.target # NoId
    /\ Len(Visited) = 2
    /\ ~restore_walk.path_found
    /\ Meta(Visited[2]).diff_children = <<Visited[1]>>

(* ---------------------------------------------------------------------- *)
(* C34, C35  applying and reading delta lists                             *)
(* ---------------------------------------------------------------------- *)

\* The Modified records of the list whose path the source archive has and
\* whose patch xdelta3::decode gives nothing for on the entry's payload.
Undecodable ==
    {k \in DOMAIN dl_records :
        /\ dl_records[k].op = "Modified"
        /\ dl_records[k].path \in PathsOf(start_tar)
        /\ Decode(dl_records[k].data, DataAt(start_tar, dl_records[k].path))
               = None}

\* The output of an application that succeeded holds the source entry of
\* every such record, payload unchanged.
KeepsSource(result) ==
    result.kind = "ok" =>
        \A k \in Undecodable :
            \E e \in DOMAIN result.entries :
                /\ result.entries[e].path = dl_records[k].path
                /\ result.entries[e].data = DataAt(start_tar, dl_records[k].path)

\* C34: a Modified record whose patch decodes to nothing makes each of the
\* delta-application routines, restore_from_delta_list and inverse, write
\* the source entry's payload unchanged under the same path.
C34_UndecodablePatchKeepsSource ==
    (/\ dl_pc = "inverted"
     /\ dl_flip = NoFlip
     /\ start_fails = 0
     /\ RecordsAscending(dl_records))
    => (KeepsSource(restored) /\ KeepsSource(inverted))

\* C35: the reader reports the end of the list only at the end of the file
\* on a record boundary: a list whose record is cut inside the length or
\* the bytes of its path, or whose path is not UTF-8, gives an error when it
\* is read and applied, and is not taken as a list that ends there.
C35_TruncatedPathIsError ==
    (dl_pc \in {"restored", "inverted"} /\ dl_flip.kind \in {"cut", "utf8"})
    => restored.kind = "err"

\* ---- C37 ----
\* The Data messages among `msgs`.
RECURSIVE CountData(_)
CountData(msgs) ==
    IF msgs = <<>> THEN 0
    ELSE (IF Head(msgs).kind = "Data" THEN 1 ELSE 0) + CountData(Tail(msgs))

RECURSIVE CountTuples(_, _)
CountTuples(tuples, t) ==
    IF tuples = <<>> THEN 0
    ELSE (IF Head(tuples).thread_index = t THEN 1 ELSE 0)
             + CountTuples(Tail(tuples), t)

\* The inputs sent to thread t whose output the producer has not received:
\* waiting in its input channel, being processed, or in the output channel.
InFlight(t) ==
    CountData(input_channel[t])
        + (IF wstate[t].at = "process" THEN 1 ELSE 0)
        + CountTuples(output_channel, t)

RECURSIVE SumInFlight(_)
SumInFlight(n) == IF n = 0 THEN 0 ELSE InFlight(n) + SumInFlight(n - 1)

\* C37: in every reachable pipeline state each worker has at most one input
\* that was sent to it and whose output the producer has not yet received; the
\* worker is marked working exactly while it has one, so write never sends to
\* a worker with an input in flight, and at most N inputs are in flight over
\* the N workers.
C37_OneInFlightPerWorker ==
    /\ \A t \in DOMAIN is_working :
          /\ InFlight(t) <= 1
          /\ is_working[t] <=> InFlight(t) = 1
    /\ SumInFlight(Len(is_working)) <= Len(is_working)

\* Every worker has its one input in flight at once: one is processing, another
\* has sent its tuple, which is still in the output channel, and the producer
\* is inside write with a further input it cannot send.
C37_Witness ==
    /\ Len(is_working) = MaxWorkers
    /\ \A t \in DOMAIN is_working : is_working[t] /\ InFlight(t) = 1
    /\ \E t \in DOMAIN is_working : wstate[t].at = "process"
    /\ \E t \in DOMAIN is_working : CountTuples(output_channel, t) = 1
    /\ pc = "write"

\* ---- C38 ----
\* C38: a snapshot that fails because a meta file with its id exists leaves the
\* repository as the command found it: the metas, payloads and delta files of
\* snapshots/, the head and the branches are what they were when it started.
C38_CollisionLeavesRepository ==
    [][(/\ spc = "check_collision"
        /\ MetaExists(staged.id)
        /\ spc' = "rest"
        /\ last_result' = "error") => Repository' = before]_vars

\* ---- C39 ----
\* snapshot::main, lines 53-65, passes for the head on disk: there is no
\* current snapshot, or its meta can be read and its full_type is Tar.
\* Otherwise every snapshot command returns Err (line 58) or panics (line 60),
\* whatever id it computed, and no command writes the head before that.
HeadAllowsSnapshot ==
    \/ head.curr_snapshot_id = NoId
    \/ /\ MetaExists(head.curr_snapshot_id)
       /\ MetaRead(head.curr_snapshot_id,
                   metas[head.curr_snapshot_id]).full_type = "Tar"

\* C39: the repository an interrupted snapshot leaves is one in which a later
\* snapshot command can succeed: the checks main makes on the current snapshot
\* before it writes anything pass.
C39_InterruptedCanSnapshot ==
    (spc = "rest" /\ last_result = "interrupted") => HeadAllowsSnapshot

====
